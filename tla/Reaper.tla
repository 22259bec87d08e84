------------------------------- MODULE Reaper -------------------------------
(***************************************************************************)
(* The reaper of cns-updater (lib/reaper-stream.js): a state machine that  *)
(* goes round the VMs in redis, pushes those that were not visited for a   *)
(* while into the pipeline again, and forgets the ones that are gone.  If  *)
(* a notification of a VM's removal is missed, it is "the only backstop".  *)
(*                                                                         *)
(* It is composed with what it depends on: the pipeline, which may drop an *)
(* object or hold an old one, and the writes and commits of the update     *)
(* stream, here one record per VM (UpdateStream has the details).          *)
(***************************************************************************)
EXTENDS Integers, Sequences

CONSTANTS
    VMs,            \* uuids of VMs
    Moves,          \* changes of VMAPI's state that VMs may make
    HighWater,      \* objects the pipeline holds before it is full
    Retries,        \* checks of a VM before it is skipped: 3
    MaxOthers,      \* bound: objects under way from the other sources
    MaxPushes,      \* bound: objects the other sources push
    MaxFaults       \* bound: objects the filters drop, failures that the
                    \* reaper meets and deaths of the process, together

States == {"incomplete", "running", "destroyed"}

ASSUME ReaperAssumption ==
    /\ VMs # {} /\ Moves \subseteq States \X States
    /\ HighWater \in Nat \ {0} /\ Retries \in Nat \ {0}
    /\ {MaxOthers, MaxPushes, MaxFaults} \subseteq Nat

VARIABLES
    vmapi,          \* what VMAPI says of each VM
    \* --- redis
    content,        \* VMs that have records in the zones
    visit, recs, reaped, \* vm:<uuid> last_visit, last_recs, reaped
    lost,           \* history: VMs whose key went at the wrong moment, and
                    \* that were not visited since
    \* --- the reaper
    fsm,
    \* --- the pipeline
    reaperQ, otherQ,\* objects from the reaper, from poller and changefeed
    \* --- the update stream
    write,          \* the _write in progress
    pending,        \* vmsToCommit
    change,         \* the builders: "add", "remove" or "keep" of each VM
    open,           \* a serial is open
    job,            \* the commit in progress
    \* --- bounds
    pushes, faults

key      == <<visit, recs, reaped, lost>>
pipeline == <<reaperQ, otherQ>>
stream   == <<write, pending, change, open, job>>
bounds   == <<pushes, faults>>
vars     == <<vmapi, content, key, fsm, pipeline, stream, bounds>>

AVM == CHOOSE v \in VMs : TRUE

(* last_recs: null, {} or something.                                       *)
RecsValues == {"none", "empty", "some"}

Idle == [stage |-> "idle", vm |-> AVM, remaining |-> <<>>, scanned |-> {},
         retries |-> Retries, val |-> "none"]

NoWrite == [stage |-> "none", vm |-> AVM, want |-> FALSE, old |-> "none"]
NoJob   == [stage |-> "none", change |-> [v \in VMs |-> "keep"],
            recs |-> [v \in VMs |-> "none"]]

Init ==
    /\ vmapi \in [VMs -> {m[1] : m \in Moves} \ {m[2] : m \in Moves}]
    /\ content = {}
    /\ visit = [v \in VMs |-> "none"] /\ recs = [v \in VMs |-> "none"]
    /\ reaped = [v \in VMs |-> FALSE] /\ lost = {}
    /\ fsm = Idle /\ reaperQ = <<>> /\ otherQ = <<>>
    /\ write = NoWrite /\ pending = NoJob.recs /\ change = NoJob.change
    /\ open = FALSE /\ job = NoJob
    /\ pushes = 0 /\ faults = 0

(* The key vm:<uuid> exists as long as it has a field.                     *)
HasKey(v) == visit[v] # "none" \/ recs[v] # "none" \/ reaped[v]

-----------------------------------------------------------------------------
(* The world: VMs change, other sources push them, the filters drop some.  *)

Object(v) == [vm |-> v, state |-> vmapi[v]]

Move(v) ==
    /\ \E s \in States : /\ <<vmapi[v], s>> \in Moves
                         /\ vmapi' = [vmapi EXCEPT ![v] = s]
    /\ UNCHANGED <<content, key, fsm, pipeline, stream, bounds>>

(* The poller or the changefeed fetches a VM and pushes it.                *)
PushOther(v) ==
    /\ pushes < MaxPushes /\ Len(otherQ) < MaxOthers
    /\ pushes' = pushes + 1
    /\ otherQ' = Append(otherQ, Object(v))
    /\ UNCHANGED <<vmapi, content, key, fsm, reaperQ, stream, faults>>

Fault == faults < MaxFaults /\ faults' = faults + 1

(* A filter cannot look up the owner or the server of a VM.                *)
Drop ==
    /\ Fault
    /\ \/ reaperQ # <<>> /\ reaperQ' = Tail(reaperQ) /\ UNCHANGED otherQ
       \/ otherQ # <<>> /\ otherQ' = Tail(otherQ) /\ UNCHANGED reaperQ
    /\ UNCHANGED <<vmapi, content, key, fsm, stream, pushes>>

InQueue(q, v) == \E i \in 1..Len(q) : q[i].vm = v

(* Something of v is in the pipeline, or in the update stream with a serial*)
(* to take it to redis: a write that changes nothing opens none.           *)
UnderWay(v) ==
    \/ InQueue(reaperQ, v) \/ InQueue(otherQ, v)
    \/ write.stage # "none" /\ write.vm = v
    \/ pending[v] # "none" /\ (open \/ job.stage # "none")
    \/ job.recs[v] # "none"

(* The states of the reaper in which the VM it looks at may be forgotten.  *)
Forgetting == {"reaped", "recs", "forget"}

(* More than reapTime passes since the last visit: longer than an object   *)
(* takes through the pipeline, a serial stays open and the reads of the    *)
(* reaper, which time out after a second, last.                            *)
Age(v) ==
    /\ visit[v] = "fresh" /\ ~UnderWay(v)
    /\ fsm.vm # v \/ fsm.stage \notin Forgetting
    /\ visit' = [visit EXCEPT ![v] = "old"]
    /\ UNCHANGED <<vmapi, content, recs, reaped, lost, fsm, pipeline, stream,
                   bounds>>

-----------------------------------------------------------------------------
(* UpdateStream.                                                           *)

Unlocked == write.stage = "none" /\ job.stage = "none"

(* FlagFilter's decision.  A destroyed VM gets no records; whether another *)
(* does is for the flags of its owner, its server and its tags, which may  *)
(* be any at the time.                                                     *)
Wants(state) == IF state = "destroyed" THEN {FALSE} ELSE BOOLEAN

Recorded(v) == IF pending[v] # "none" THEN pending[v] ELSE recs[v]

(* Mutant: does not save last_visit.                                       *)
BeginUnvisited(obj) ==
    /\ Unlocked
    /\ \E want \in Wants(obj.state) :
          write' = [stage |-> "set", vm |-> obj.vm, want |-> want,
                    old |-> Recorded(obj.vm)]
    /\ UNCHANGED <<visit, lost>>

(* _write: hset last_visit, then hget last_recs of the same connection.  It *)
(* does not mind where the reaper is.                                      *)
Begin(obj) ==
    /\ Unlocked
    /\ \E want \in Wants(obj.state) :
          write' = [stage |-> "set", vm |-> obj.vm, want |-> want,
                    old |-> Recorded(obj.vm)]
    /\ visit' = [visit EXCEPT ![obj.vm] = "fresh"] /\ lost' = lost \ {obj.vm}

BeginWrite ==
    /\ \/ /\ reaperQ # <<>> /\ Begin(Head(reaperQ))
          /\ reaperQ' = Tail(reaperQ) /\ UNCHANGED otherQ
       \/ /\ otherQ # <<>> /\ Begin(Head(otherQ))
          /\ otherQ' = Tail(otherQ) /\ UNCHANGED reaperQ
    /\ UNCHANGED <<vmapi, content, recs, reaped, fsm, pending, change, open, job,
                   bounds>>

(* Only what last_recs names is removed.                                   *)
EndWrite ==
    /\ write.stage = "set"
    /\ pending' = [pending EXCEPT ![write.vm] = IF write.want THEN "some" ELSE "empty"]
    /\ change' = [change EXCEPT ![write.vm] =
                    IF write.want THEN "add"
                    ELSE IF write.old = "some" THEN "remove" ELSE @]
    /\ open' = (open \/ write.want \/ write.old = "some")
    /\ write' = NoWrite
    /\ UNCHANGED <<vmapi, content, key, fsm, pipeline, job, bounds>>

(* A serial is closed: the builders go to the commit.                      *)
StartCommit ==
    /\ Unlocked /\ open
    /\ open' = FALSE
    /\ job' = [NoJob EXCEPT !.stage = "zones", !.change = change]
    /\ change' = NoJob.change
    /\ UNCHANGED <<vmapi, content, key, fsm, pipeline, write, pending, bounds>>

CommitZones ==
    /\ job.stage = "zones"
    /\ content' = {v \in VMs : \/ job.change[v] = "add"
                               \/ job.change[v] = "keep" /\ v \in content}
    /\ job' = [job EXCEPT !.stage = "vms", !.recs = pending]
    /\ pending' = NoJob.recs
    /\ UNCHANGED <<vmapi, key, fsm, pipeline, write, change, open, bounds>>

SaveVMRecords ==
    /\ job.stage = "vms"
    /\ recs' = [v \in VMs |-> IF job.recs[v] # "none" THEN job.recs[v] ELSE recs[v]]
    /\ job' = NoJob
    /\ UNCHANGED <<vmapi, content, visit, reaped, lost, fsm, pipeline, write,
                   pending, change, open, bounds>>

-----------------------------------------------------------------------------
(* The reaper's states.  A step that reads redis or VMAPI leaves what it   *)
(* read to the next step, which runs when the answer has come.             *)

World == <<vmapi, content, pipeline, stream, bounds>>
To(stage) == fsm' = [fsm EXCEPT !.stage = stage]

(* state_idle: on the timer, or asked for by the pipeline.                 *)
Wake ==
    /\ fsm.stage = "idle"
    /\ fsm' = [fsm EXCEPT !.stage = "list", !.scanned = {}]
    /\ UNCHANGED <<key, World>>

(* state_listVms: redis.scan gives all keys that stay, in any order.       *)
ScanKey(v) ==
    /\ fsm.stage = "list" /\ HasKey(v) /\ v \notin fsm.scanned
    /\ fsm' = [fsm EXCEPT !.remaining = Append(@, v), !.scanned = @ \cup {v}]
    /\ UNCHANGED <<key, World>>

ScanDone ==
    /\ fsm.stage = "list"
    /\ \A v \in VMs : HasKey(v) => v \in fsm.scanned
    /\ To("next")
    /\ UNCHANGED <<key, World>>

(* Mutant: the retries of the VM before count.                             *)
TakeNextTired ==
    /\ fsm.stage = "next" /\ fsm.remaining # <<>>
    /\ fsm' = [fsm EXCEPT !.stage = "visit", !.vm = Head(fsm.remaining),
                          !.remaining = Tail(@)]
    /\ UNCHANGED <<key, World>>

(* state_next.                                                             *)
TakeNext ==
    /\ fsm.stage = "next" /\ fsm.remaining # <<>>
    /\ fsm' = [fsm EXCEPT !.stage = "visit", !.vm = Head(fsm.remaining),
                          !.remaining = Tail(@), !.retries = Retries]
    /\ UNCHANGED <<key, World>>

RoundDone ==
    /\ fsm.stage = "next" /\ fsm.remaining = <<>>
    /\ To("idle")
    /\ UNCHANGED <<key, World>>

(* state_checkLastVisited.                                                 *)
CheckLastVisited ==
    /\ fsm.stage = "visit"
    /\ To(IF visit[fsm.vm] = "old" THEN "reaped" ELSE "next")
    /\ UNCHANGED <<key, World>>

(* state_checkReaped: the first of its two reads.                          *)
CheckReaped ==
    /\ fsm.stage = "reaped"
    /\ To(IF reaped[fsm.vm] THEN "recs" ELSE "fetch")
    /\ UNCHANGED <<key, World>>

(* Mutant: a VM that was reaped before is thrown away without a look.      *)
ReadNothing ==
    /\ fsm.stage = "recs"
    /\ fsm' = [fsm EXCEPT !.stage = "forget", !.val = "none"]
    /\ UNCHANGED <<key, World>>

ReadLastRecs ==
    /\ fsm.stage = "recs"
    /\ fsm' = [fsm EXCEPT !.stage = "forget", !.val = recs[fsm.vm]]
    /\ UNCHANGED <<key, World>>

(* Unlike that of the reads before it, its error does not lead to          *)
(* checkError.                                                             *)
LastRecsFails ==
    /\ fsm.stage = "recs" /\ Fault
    /\ fsm' = [fsm EXCEPT !.stage = "forget", !.val = "error"]
    /\ UNCHANGED <<vmapi, content, key, pipeline, stream, pushes>>

(* del vm:<uuid> is wrong when a write of the VM has begun since its       *)
(* last_visit was read, or when there are records that could not be read.  *)
Wrong ==
    \/ visit[fsm.vm] = "fresh"
    \/ fsm.val = "error" /\ recs[fsm.vm] = "some"

Delete ==
    /\ visit'  = [visit EXCEPT ![fsm.vm] = "none"]
    /\ recs'   = [recs EXCEPT ![fsm.vm] = "none"]
    /\ reaped' = [reaped EXCEPT ![fsm.vm] = FALSE]
    /\ lost'   = IF Wrong THEN lost \cup {fsm.vm} ELSE lost

(* Mutant: leaves a VM that still has records to the next round.           *)
ForgetOrSkip ==
    /\ fsm.stage = "forget"
    /\ IF fsm.val = "some" THEN UNCHANGED key ELSE Delete
    /\ To("next")
    /\ UNCHANGED World

(* What last_recs was when it was read, empty or an error, decides.        *)
Forget ==
    /\ fsm.stage = "forget"
    /\ IF fsm.val = "some" THEN To("fetch") /\ UNCHANGED key
       ELSE To("next") /\ Delete
    /\ UNCHANGED World

(* state_fetchAndPush: the GET, then the push.  Bound: while the pipeline  *)
(* is full the reaper sleeps.                                              *)
Fetch ==
    /\ fsm.stage = "fetch" /\ Len(reaperQ) < HighWater
    /\ fsm' = [fsm EXCEPT !.stage = "push", !.val = vmapi[fsm.vm]]
    /\ UNCHANGED <<key, World>>

Gone(state) == state \in {"destroyed", "incomplete"}

(* Mutant: does not note that the VM was seen destroyed.                   *)
PushUnnoted ==
    /\ fsm.stage = "push"
    /\ reaperQ' = Append(reaperQ, [vm |-> fsm.vm, state |-> fsm.val])
    /\ To("sleep")
    /\ UNCHANGED <<vmapi, content, key, otherQ, stream, bounds>>

Push ==
    /\ fsm.stage = "push"
    /\ reaperQ' = Append(reaperQ, [vm |-> fsm.vm, state |-> fsm.val])
    /\ reaped' = IF Len(reaperQ') < HighWater /\ Gone(fsm.val)
                   THEN [reaped EXCEPT ![fsm.vm] = TRUE] ELSE reaped
    /\ To("sleep")
    /\ UNCHANGED <<vmapi, content, visit, recs, lost, otherQ, stream, bounds>>

(* state_sleep and state_sleep_full, which differ in how long they take.   *)
Awake ==
    /\ fsm.stage = "sleep"
    /\ To("next")
    /\ UNCHANGED <<key, World>>

(* state_listError: the scan starts again, what it gave so far stays.      *)
ListFails ==
    /\ fsm.stage = "list" /\ Fault
    /\ fsm' = [fsm EXCEPT !.scanned = {}]
    /\ UNCHANGED <<vmapi, content, key, pipeline, stream, pushes>>

Checking == {"visit", "reaped", "recs", "forget", "fetch", "push"}

(* state_checkError: a read fails, or its answer does not come in time.    *)
CheckFails ==
    /\ fsm.stage \in Checking /\ Fault
    /\ fsm' = [fsm EXCEPT !.retries = @ - 1,
                          !.stage = IF fsm.retries > 1 THEN "visit" ELSE "next"]
    /\ UNCHANGED <<vmapi, content, key, pipeline, stream, pushes>>

-----------------------------------------------------------------------------
(* The process dies and is started again.                                  *)
Crash ==
    /\ Fault
    /\ fsm' = Idle /\ reaperQ' = <<>> /\ otherQ' = <<>>
    /\ write' = NoWrite /\ pending' = NoJob.recs /\ change' = NoJob.change
    /\ open' = FALSE /\ job' = NoJob
    /\ UNCHANGED <<vmapi, content, key, pushes>>

ReaperStep ==
    \/ Wake \/ \E v \in VMs : ScanKey(v)
    \/ ScanDone \/ TakeNext \/ RoundDone
    \/ CheckLastVisited \/ CheckReaped \/ ReadLastRecs \/ Forget
    \/ Fetch \/ Push \/ Awake

StreamStep == BeginWrite \/ EndWrite \/ StartCommit \/ CommitZones \/ SaveVMRecords

Next ==
    \/ \E v \in VMs : Move(v) \/ PushOther(v) \/ Age(v)
    \/ Drop \/ ReaperStep \/ ListFails \/ CheckFails \/ LastRecsFails
    \/ StreamStep \/ Crash

(* Redis and VMAPI answer, the reaper's timers fire, the pipeline flows, a *)
(* serial is closed, time passes.  Nothing makes the other sources push.   *)
Fairness ==
    /\ WF_vars(ReaperStep) /\ WF_vars(StreamStep)
    /\ \A v \in VMs : WF_vars(Age(v))

Spec == Init /\ [][Next]_vars /\ Fairness

-----------------------------------------------------------------------------
(* Properties.                                                             *)

Objects == [vm : VMs, state : States]

KeyTypeOK ==
    /\ vmapi \in [VMs -> States] /\ content \subseteq VMs
    /\ visit \in [VMs -> {"none", "fresh", "old"}]
    /\ recs \in [VMs -> RecsValues] /\ reaped \in [VMs -> BOOLEAN]
    /\ lost \subseteq VMs

FsmTypeOK ==
    /\ fsm \in [stage : Checking \cup {"idle", "list", "next", "sleep"},
                vm : VMs, remaining : Seq(VMs), scanned : SUBSET VMs,
                retries : 0..Retries,
                val : RecsValues \cup States \cup {"error"}]
    /\ fsm.stage \in Checking => fsm.retries > 0
    /\ fsm.stage = "push" => fsm.val \in States

QueueTypeOK == reaperQ \in Seq(Objects) /\ otherQ \in Seq(Objects)

StreamTypeOK ==
    /\ write \in [stage : {"none", "set"}, vm : VMs, want : BOOLEAN,
                  old : RecsValues]
    /\ pending \in [VMs -> RecsValues]
    /\ change \in [VMs -> {"keep", "add", "remove"}] /\ open \in BOOLEAN
    /\ job \in [stage : {"none", "zones", "vms"},
                change : [VMs -> {"keep", "add", "remove"}],
                recs : [VMs -> RecsValues]]

(* Every variable has its type; a VM that is being checked has retries     *)
(* left, and what is pushed is a VM that was fetched.                      *)
TypeOK ==
    /\ KeyTypeOK /\ FsmTypeOK /\ QueueTypeOK /\ StreamTypeOK
    /\ bounds \in (0..MaxPushes) \X (0..MaxFaults)

RecordsOf(v) == {recs[v], pending[v], job.recs[v]}

(* "If we throw away a VM and it still has last_recs entries then it's     *)
(* very difficult to ever get rid of the records about that VM in future,  *)
(* so we're extra paranoid" (reaper-stream.js:246): a key goes only when   *)
(* its VM has no records, nor any that are about to be saved.              *)
ThrowsAwayOnlyEmpty ==
    [][\A v \in VMs : HasKey(v) /\ ~HasKey(v)' => "some" \notin RecordsOf(v)]_vars

(* That fails in two ways and in no other (see Wrong): a write of the VM   *)
(* has begun since the reaper read its last_visit, or its last_recs could  *)
(* not be read.                                                            *)
LosesNothingElse ==
    [][\A v \in VMs : HasKey(v) /\ ~HasKey(v)' =>
          "some" \notin RecordsOf(v) \/ v \in lost']_vars

(* A VM with records is one the reaper looks at: without last_visit it is  *)
(* skipped for ever.  The only ones without are those whose key went while *)
(* they were being written, until they are written again.                  *)
NeverSkipped ==
    \A v \in VMs \ lost : recs[v] = "some" => visit[v] # "none"

(* "This is the only backstop that pulls them out of DNS": the recorded    *)
(* records of a destroyed VM go, although no notification of its removal   *)
(* need arrive, objects are dropped or stale, reads fail and the process   *)
(* dies; unless its key is lost.                                           *)
Backstop ==
    \A v \in VMs : (vmapi[v] = "destroyed" /\ recs[v] = "some")
                      ~> (v \notin content \/ v \in lost)

(* A destroyed VM is forgotten in the end, unless its key was lost.        *)
Forgotten ==
    \A v \in VMs : (vmapi[v] = "destroyed" /\ HasKey(v))
                      ~> (~HasKey(v) \/ v \in lost)

-----------------------------------------------------------------------------
(* Why NeverSkipped and LosesNothingElse hold: an invariant that every     *)
(* step preserves (Reaper_proofs).                                         *)

(* Records on their way to a key are those of a VM visited a moment ago,   *)
(* unless its key was lost; and there is a serial to take them there.      *)
RecordsAreRecent ==
    \A v \in VMs :
        /\ visit[v] # "fresh" /\ v \notin lost =>
              /\ write.stage = "none" \/ write.vm # v
              /\ "some" \notin {pending[v], job.recs[v]}
        /\ pending[v] = "some" => open \/ job.stage = "zones"
        /\ v \in lost => visit[v] = "none"

(* The VM that the reaper is about to forget was visited at some time, and *)
(* if not since the reaper asked and it saw no records, there are none.    *)
SawTheOld ==
    fsm.stage \in Forgetting =>
        /\ visit[fsm.vm] # "none"
        /\ fsm.stage = "forget" /\ visit[fsm.vm] = "old" =>
              fsm.val \in {"some", "error"} \/ recs[fsm.vm] # "some"

KeyInv == NeverSkipped /\ RecordsAreRecent /\ SawTheOld

IInv == TypeOK /\ KeyInv

=============================================================================
