------------------------ MODULE UpdateStream_proofs ------------------------
(***************************************************************************)
(* Proofs about UpdateStream, for all values of its constants: the types   *)
(* and SafeInv, through crashes; whose records they are, by ExactInv, which *)
(* is inductive given SafeInv while nothing crashes; and WrittenIsPending. *)
(***************************************************************************)
EXTENDS UpdateStream, TLAPS

(* The listeners of an emit('done') are those that were deferred, and one  *)
(* fewer after each of them has run.                                       *)
LEMMA ListenerTypes ==
    ASSUME NEW s \in Seq(Waiters)
    PROVE  /\ \A w \in Waiters : Append(s, w) \in Seq(Waiters)
           /\ s # <<>> => Head(s) \in Waiters /\ Tail(s) \in Seq(Waiters)
  OBVIOUS

LEMMA WaiterTypes ==
    /\ WriteWaiter \in Waiters
    /\ \A s \in Nat, cb \in BOOLEAN : CloseWaiter(s, cb) \in Waiters
  BY DEF WriteWaiter, CloseWaiter, Waiters, NoSerial

LEMMA NoJobType == NoJob \in Jobs /\ NoWrite \in Writes
  BY WantsAssumption DEF NoJob, Jobs, NoSerial, ZoneSteps, NoWrite, Writes, AVM, WriteStages

(* What the parts of actions do to the types.                              *)
LEMMA OpenSerialType ==
    ASSUME TypeOK, NEW t \in BOOLEAN, OpenSerial(t)
    PROVE  /\ serial' \in Nat /\ timer' \in Nat /\ opened' \subseteq Zones
           /\ from' \in [Zones -> Nat] /\ rms' \subseteq Records
           /\ adds' \subseteq Records
  BY DEF TypeOK, OpenSerial, NextSerial, TriggerTicks

LEMMA StartCommitType ==
    ASSUME TypeOK, NEW cb \in BOOLEAN, StartCommit(cb)
    PROVE  /\ serial' \in Nat /\ timer' \in Nat /\ opened' \subseteq Zones
           /\ from' \in [Zones -> Nat] /\ rms' \subseteq Records
           /\ adds' \subseteq Records /\ job' \in Jobs
           /\ busy' \in {"idle", "write", "commit"}
           /\ deferred' \in Seq(Waiters)
<1> DEFINE names == {<<r.zone, r.name>> : r \in rms \cup adds}
           step  == [z \in Zones |-> IF z \in opened /\ IsDirty(z)
                                       THEN "remove" ELSE "done"]
<1>a. names \subseteq Zones \X Names
  BY RecordsAssumption DEF TypeOK
<1>b. step \in [Zones -> ZoneSteps]
  BY DEF ZoneSteps
<1>c. job' = [stage |-> "zones", serial |-> serial, early |-> now < serial, cb |-> cb,
              zones |-> {z \in opened : IsDirty(z)}, from |-> from,
              rms |-> rms, adds |-> adds, step |-> step, names |-> names,
              recs |-> [v \in VMs |-> Undef]]
  BY DEF StartCommit, NoJob
<1>1. job' \in Jobs
  BY <1>a, <1>b, <1>c DEF TypeOK, Jobs
<1>2. QED
  BY <1>1 DEF TypeOK, StartCommit, NoSerial

LEMMA DeferCloseType ==
    ASSUME TypeOK, NEW cb \in BOOLEAN, DeferClose(cb)
    PROVE  /\ serial' \in Nat /\ opened' \subseteq Zones
           /\ from' \in [Zones -> Nat] /\ rms' \subseteq Records
           /\ adds' \subseteq Records /\ job' \in Jobs
           /\ busy' \in {"idle", "write", "commit"}
           /\ deferred' \in Seq(Waiters)
  BY WaiterTypes, ListenerTypes DEF TypeOK, DeferClose

LEMMA InitType == Init => TypeOK
<1>1. <<>> \in Seq(Waiters)
  OBVIOUS
<1>2. [z \in Zones |-> <<>>] \in [Zones -> Seq(Versions)]
  OBVIOUS
<1>3. ASSUME Init
      PROVE  /\ serial \in Nat /\ timer \in Nat /\ from \in [Zones -> Nat]
             /\ vmsToCommit \in [VMs -> {Undef} \cup SUBSET Records]
             /\ latest \in [Zones -> Nat] /\ lastRecs \in [VMs -> SUBSET Records]
  BY <1>3 DEF Init, NoSerial
<1>4. QED
  BY <1>1, <1>2, <1>3, NoJobType DEF Init, TypeOK

(* The steps of a commit, each with the variables it changes.              *)
LEMMA CommitStepType == TypeOK /\ CommitStep => TypeOK'
<1> SUFFICES ASSUME TypeOK, CommitStep PROVE TypeOK'
  OBVIOUS
<1> USE DEF redis
<1>0. /\ job.step \in [Zones -> ZoneSteps] /\ job.from \in [Zones -> Nat]
      /\ job.serial \in Nat /\ job.cb \in BOOLEAN
      /\ job.rms \subseteq Records /\ job.adds \subseteq Records
      /\ job.names \subseteq Zones \X Names /\ job.zones \subseteq Zones
      /\ job.recs \in [VMs -> {Undef} \cup SUBSET Records]
  BY DEF TypeOK, Jobs
<1>e. ASSUME NEW z \in Zones, NEW op \in {"remove", "add"},
             NEW R, R \subseteq Records
      PROVE  Entries(z, op, R) \subseteq IxfrEntries
  BY <1>0, <1>e DEF Entries, IxfrEntries
<1>s. ASSUME NEW z \in Zones, NEW s \in ZoneSteps
      PROVE  [job EXCEPT !.step[z] = s] \in Jobs
  BY <1>0 DEF TypeOK, Jobs
<1>1. ASSUME NEW z \in Zones, PushRemoves(z) PROVE TypeOK'
  <2>1. ixfr' \subseteq IxfrEntries
    BY <1>0, <1>1, <1>e DEF PushRemoves, TypeOK
  <2>2. job' \in Jobs
    BY <1>1, <1>s DEF PushRemoves, ZoneSteps
  <2>3. QED BY <1>1, <2>1, <2>2 DEF PushRemoves, CommitUnchanged, TypeOK
<1>2. ASSUME NEW z \in Zones, PushAdds(z) PROVE TypeOK'
  <2>1. ixfr' \subseteq IxfrEntries
    BY <1>0, <1>2, <1>e DEF PushAdds, TypeOK
  <2>2. job' \in Jobs
    BY <1>2, <1>s DEF PushAdds, ZoneSteps
  <2>3. QED BY <1>2, <2>1, <2>2 DEF PushAdds, CommitUnchanged, TypeOK
<1>3. ASSUME NEW z \in Zones, NEW n \in Names, CommitName(z, n) PROVE TypeOK'
  <2>1. content' \subseteq Records
    BY <1>0, <1>3 DEF CommitName, Under, TypeOK
  <2>2. job' \in Jobs
    BY <1>0, <1>3 DEF CommitName, Jobs, TypeOK
  <2>3. QED BY <1>3, <2>1, <2>2 DEF CommitName, CommitUnchanged, TypeOK
<1>4. ASSUME NEW z \in Zones, PushAll(z) PROVE TypeOK'
  <2>1. NewVersion(z) \in Versions
    BY <1>0 DEF NewVersion, Versions, InZone, TypeOK, Jobs
  <2>2. all[z] \in Seq(Versions)
    BY DEF TypeOK
  <2>3. Append(all[z], NewVersion(z)) \in Seq(Versions)
    BY <2>1, <2>2
  <2>4. all' = [all EXCEPT ![z] = Append(all[z], NewVersion(z))]
    BY <1>4 DEF PushAll
  <2>5. all' \in [Zones -> Seq(Versions)]
    BY <2>3, <2>4 DEF TypeOK
  <2>6. job' \in Jobs
    BY <1>4, <1>s DEF PushAll, ZoneSteps
  <2>7. QED BY <1>4, <2>5, <2>6 DEF PushAll, CommitUnchanged, TypeOK
<1>5. ASSUME NEW z \in Zones, SetLatest(z) PROVE TypeOK'
  <2>1. job' \in Jobs
    BY <1>5, <1>s DEF SetLatest, ZoneSteps
  <2>2. QED BY <1>0, <1>5, <2>1 DEF SetLatest, CommitUnchanged, TypeOK
<1>6. ASSUME NEW z \in Zones, SaveNSRecords(z) PROVE TypeOK'
  <2>1. job' \in Jobs
    BY <1>0, <1>6 DEF SaveNSRecords, Jobs, TypeOK
  <2>2. nsrecs' \subseteq Zones \X Nat
    BY <1>0, <1>6 DEF SaveNSRecords, TypeOK
  <2>3. QED BY <1>6, <2>1, <2>2 DEF SaveNSRecords, CommitUnchanged, TypeOK
<1>7. CASE StartVMRecords
  <2>1. job' \in Jobs
    BY <1>0, <1>7 DEF StartVMRecords, Jobs, TypeOK
  <2>2. QED BY <1>7, <2>1 DEF StartVMRecords, CommitUnchanged, TypeOK
<1>8. ASSUME NEW v \in VMs, SaveVMRecord(v) PROVE TypeOK'
  <2>1. job' \in Jobs
    BY <1>0, <1>8 DEF SaveVMRecord, Jobs, TypeOK
  <2>2. QED BY <1>0, <1>8, <2>1 DEF SaveVMRecord, CommitUnchanged, TypeOK
<1>9. CASE FinishCommit
  <2>1. busy' = "idle" /\ turn' \in Seq(Waiters) /\ deferred' \in Seq(Waiters)
    BY <1>9 DEF FinishCommit, BusyDone, TypeOK
  <2>2. reported' \subseteq Nat /\ finished' \subseteq Nat
    BY <1>0, <1>9 DEF FinishCommit, TypeOK
  <2>3. QED
    BY <1>9, <2>1, <2>2, NoJobType DEF FinishCommit, TypeOK
<1>10. QED
  BY <1>1, <1>2, <1>3, <1>4, <1>5, <1>6, <1>7, <1>8, <1>9 DEF CommitStep

LEMMA StepType == TypeOK /\ [Next]_vars => TypeOK'
<1> SUFFICES ASSUME TypeOK, [Next]_vars PROVE TypeOK'
  OBVIOUS
<1> USE DEF memory, redis
<1>1. CASE Tick
  <2>1. now' \in Nat
    BY <1>1 DEF Tick, TypeOK
  <2>2. QED BY <1>1, <2>1 DEF Tick, TypeOK
<1>2. CASE PollStart
  BY <1>2, OpenSerialType DEF PollStart, TypeOK
<1>3. ASSUME NEW cb \in BOOLEAN, PollDone(cb) PROVE TypeOK'
  <2>1. CASE serial # NoSerial /\ busy = "idle"
    BY <1>3, <2>1, StartCommitType DEF PollDone, TypeOK
  <2>2. CASE serial # NoSerial /\ busy # "idle"
    BY <1>3, <2>2, DeferCloseType DEF PollDone, TypeOK
  <2>3. CASE serial = NoSerial
    BY <1>3, <2>3 DEF PollDone, TypeOK
  <2>4. QED BY <2>1, <2>2, <2>3
<1>4. CASE TimerFires
  <2>1. CASE busy = "idle"
    BY <1>4, <2>1, StartCommitType DEF TimerFires, TypeOK
  <2>2. CASE busy # "idle"
    BY <1>4, <2>2, DeferCloseType DEF TimerFires, TypeOK
  <2>3. QED BY <2>1, <2>2
<1>5. CASE RunListener
  <2> DEFINE w == Head(turn)
  <2>1. w \in Waiters /\ turn' \in Seq(Waiters)
    BY <1>5, ListenerTypes DEF RunListener, Quiet, TypeOK
  <2>2. w.serial \in Nat /\ w.cb \in BOOLEAN
    BY <2>1 DEF Waiters
  <2>3. CASE busy' = "write" /\ write' = [write EXCEPT !.stage = "fetch"]
             /\ UNCHANGED <<serial, timer, deferred, opened, from, rms, adds,
                            job, reported>>
    BY <1>5, <2>1, <2>3 DEF RunListener, TypeOK, Writes, WriteStages
  <2>4. CASE StartCommit(w.cb) /\ UNCHANGED <<write, reported>>
    BY <1>5, <2>1, <2>2, <2>4, StartCommitType DEF RunListener, TypeOK
  <2>5. CASE /\ deferred' = Append(deferred, w)
             /\ UNCHANGED <<serial, timer, busy, opened, from, rms, adds, job,
                            write, reported>>
    BY <1>5, <2>1, <2>5, ListenerTypes DEF RunListener, TypeOK
  <2>6. CASE /\ reported' = IF w.cb THEN reported \cup {w.serial} ELSE reported
             /\ UNCHANGED <<serial, timer, busy, deferred, opened, from, rms,
                            adds, job, write>>
    BY <1>5, <2>1, <2>2, <2>6 DEF RunListener, TypeOK
  <2>7. QED BY <1>5, <2>3, <2>4, <2>5, <2>6 DEF RunListener
<1>6. ASSUME NEW v \in VMs, NEW W \in Wants[v], Write(v, W) PROVE TypeOK'
  <2>1. W \subseteq Records
    BY WantsAssumption
  <2>2. \A s \in {"fetch", "waiting"} :
          [stage |-> s, vm |-> v, want |-> W, old |-> {}] \in Writes
    BY <2>1 DEF Writes, WriteStages
  <2>3. QED
    BY <1>6, <2>2, WaiterTypes, ListenerTypes DEF Write, TypeOK
<1>7. CASE FetchLastRecs
  <2>1. write.vm \in VMs
    BY DEF TypeOK, Writes
  <2>2. write' \in Writes
    BY <1>7, <2>1 DEF FetchLastRecs, TypeOK, Writes, WriteStages
  <2>3. CASE OpenSerial(TRUE)
    BY <1>7, <2>2, <2>3, OpenSerialType DEF FetchLastRecs, TypeOK
  <2>4. CASE UNCHANGED <<serial, timer, opened, from, rms, adds>>
    BY <1>7, <2>2, <2>4 DEF FetchLastRecs, TypeOK
  <2>5. QED BY <1>7, <2>3, <2>4 DEF FetchLastRecs
<1>8. CASE RemoveEntries
  <2>1. write.old \subseteq Records /\ write.want \subseteq Records
    BY DEF TypeOK, Writes
  <2>2. ZonesOf(Dropped(write.old, write.want)) \subseteq Zones
    BY <2>1, RecordsAssumption DEF ZonesOf, Dropped
  <2>3. opened' \subseteq Zones /\ from' \in [Zones -> Nat]
    BY <1>8, <2>2 DEF RemoveEntries, OpenZones, TypeOK
  <2>4. rms' \subseteq Records /\ adds' \subseteq Records
    BY <1>8 DEF RemoveEntries, Remove, Matching, List, TypeOK
  <2>5. write' \in Writes
    BY <1>8 DEF RemoveEntries, TypeOK, Writes, WriteStages
  <2>6. QED BY <1>8, <2>3, <2>4, <2>5 DEF RemoveEntries, TypeOK
<1>9. CASE SetEntries
  <2>1. write.want \subseteq Records /\ write.vm \in VMs
    BY DEF TypeOK, Writes
  <2>2. ZonesOf(write.want) \subseteq Zones
    BY <2>1, RecordsAssumption DEF ZonesOf
  <2>3. opened' \subseteq Zones /\ from' \in [Zones -> Nat]
    BY <1>9, <2>2 DEF SetEntries, OpenZones, TypeOK
  <2>4. rms' \subseteq Records /\ adds' \subseteq Records
    BY <1>9, <2>1 DEF SetEntries, Remove, Surplus, Missing, List, TypeOK
  <2>5. vmsToCommit' \in [VMs -> {Undef} \cup SUBSET Records]
    BY <1>9, <2>1 DEF SetEntries, TypeOK
  <2>6. deferred' \in Seq(Waiters) /\ turn' \in Seq(Waiters)
    BY <1>9 DEF SetEntries, BusyDone, TypeOK
  <2>7. QED
    BY <1>9, <2>3, <2>4, <2>5, <2>6, NoJobType DEF SetEntries, BusyDone, TypeOK
<1>10. CASE CommitStep
  BY <1>10, CommitStepType
<1>11. CASE Crash
  <2>1. deferred' \in Seq(Waiters) /\ turn' \in Seq(Waiters) /\ crashes' \in Nat
    BY <1>11 DEF Crash, TypeOK
  <2>2. from' \in [Zones -> Nat] /\ serial' \in Nat /\ timer' \in Nat
    BY <1>11 DEF Crash, NoSerial
  <2>3. vmsToCommit' \in [VMs -> {Undef} \cup SUBSET Records]
    BY <1>11 DEF Crash
  <2>4. cut' \subseteq Zones \X Nat
    <3>1. job.zones \subseteq Zones /\ job.serial \in Nat
      BY DEF TypeOK, Jobs
    <3>2. QED BY <1>11, <3>1 DEF Crash, TypeOK
  <2>5. QED BY <1>11, <2>1, <2>2, <2>3, <2>4, NoJobType DEF Crash, TypeOK
<1>12. CASE UNCHANGED vars
  BY <1>12 DEF vars, TypeOK
<1>13. QED
  BY <1>1, <1>2, <1>3, <1>4, <1>5, <1>6, <1>7, <1>8, <1>9, <1>10, <1>11, <1>12,
     CallersAssumption DEF Next, WriteStep

(* Every variable keeps its type, for any zones, VMs, records and bounds.  *)
THEOREM TypeCorrect == Spec => []TypeOK
  BY InitType, StepType, PTL DEF Spec

-----------------------------------------------------------------------------
(* Wants: what a VM may be given.                                          *)

LEMMA GivenOf ==
    ASSUME NEW v \in VMs, NEW W \in Given(v)
    PROVE  W \subseteq Records /\ W # Undef /\ \A r \in W : r.src \in {v, NoSrc}
  BY WantsAssumption DEF Given

(* What is pending and what is recorded, as memory and redis have it.      *)
SameView == /\ Pending' = Pending
            /\ \A v \in VMs : Recorded(v)' = Recorded(v)

RecordVars == <<content, rms, adds, job, vmsToCommit, lastRecs>>

LEMMA SameRecords ==
    ASSUME SafeInv, UNCHANGED RecordVars
    PROVE  SameView /\ JobProgress' /\ RecordsMove'
<1>1. SameView
  BY DEF RecordVars, SameView, Pending, Recorded
<1>2. JobProgress' /\ RecordsMove'
  BY DEF SafeInv, JobProgress, RecordsMove, RecordVars
<1>3. QED BY <1>1, <1>2

(* The write in progress: as before, or none.                              *)
LEMMA SameWrite ==
    ASSUME SafeInv, UNCHANGED <<write, vmsToCommit, lastRecs>>,
           \A v \in VMs : job'.recs[v] \in {Undef, job.recs[v]},
           serial' = NoSerial => serial = NoSerial \/ busy = "idle"
    PROVE  OnlyGiven' /\ WriteHasSerial'
<1>1. OnlyGiven'
  BY DEF SafeInv, OnlyGiven, Given
<1>2. write.stage \in {"remove", "set"} => busy = "write"
  BY DEF SafeInv, Lock
<1>3. WriteHasSerial'
  BY <1>2 DEF SafeInv, WriteHasSerial, Dropped
<1>4. QED BY <1>1, <1>3

LEMMA QuietStep ==
    ASSUME SafeInv, TypeOK', UNCHANGED RecordVars,
           UNCHANGED <<write, busy, serial, opened>>
    PROVE  SafeInv' /\ SameView
<1>1. SameView /\ JobProgress' /\ RecordsMove'
  BY SameRecords
<1>2. OnlyGiven' /\ WriteHasSerial'
  BY SameWrite DEF RecordVars
<1>3. Lock' /\ BuildersHaveSerial'
  BY DEF SafeInv, Lock, BuildersHaveSerial, RecordVars
<1>4. QED BY <1>1, <1>2, <1>3 DEF SafeInv

(* Opening a serial resets no builder that was dirty.                      *)
LEMMA OpenStep ==
    ASSUME SafeInv, NEW t \in BOOLEAN, OpenSerial(t)
    PROVE  /\ rms' = rms /\ adds' = adds
           /\ \A r \in rms \cup adds : r.zone \in opened'
           /\ serial' # NoSerial
<1>1. CASE serial # NoSerial
  BY <1>1 DEF SafeInv, OpenSerial, BuildersHaveSerial
<1>2. CASE serial = NoSerial
  <2>1. serial' = now + 1 /\ now \in Nat /\ rms' = {} /\ adds' = {}
    BY <1>2 DEF SafeInv, TypeOK, OpenSerial, NextSerial
  <2>2. rms = {} /\ adds = {}
    BY <1>2 DEF SafeInv, BuildersHaveSerial
  <2>3. QED BY <2>1, <2>2 DEF NoSerial
<1>3. QED BY <1>1, <1>2

(* The job a commit begins with.                                           *)
LEMMA JobStarts ==
    ASSUME NEW cb, StartCommit(cb)
    PROVE  /\ job'.stage = "zones" /\ job'.serial = serial /\ job'.cb = cb
           /\ job'.rms = rms /\ job'.adds = adds /\ job'.from = from
           /\ job'.zones = {z \in opened : IsDirty(z)}
           /\ job'.recs = [v \in VMs |-> Undef]
           /\ job'.names = {<<r.zone, r.name>> : r \in rms \cup adds}
           /\ job'.step = [z \in Zones |-> IF z \in opened /\ IsDirty(z)
                                             THEN "remove" ELSE "done"]
  BY DEF StartCommit, NoJob

(* A commit starts with the records that were pending.                     *)
LEMMA StartStep ==
    ASSUME SafeInv, TypeOK', NEW cb \in BOOLEAN, StartCommit(cb), busy = "idle",
           UNCHANGED <<write, content, vmsToCommit, lastRecs>>
    PROVE  SafeInv' /\ SameView
<1>1. /\ job = NoJob /\ NoJob.rms = {} /\ NoJob.adds = {}
      /\ job.recs = [v \in VMs |-> Undef]
  BY DEF SafeInv, Lock, NoJob
<1>2. rms' = {} /\ adds' = {} /\ opened' = {} /\ busy' = "commit"
  BY DEF StartCommit
<1>3. SameView
  <2>1. Pending' = Pending
    BY <1>1, <1>2, JobStarts DEF Pending
  <2>2. \A v \in VMs : Recorded(v)' = Recorded(v)
    BY <1>1, JobStarts DEF Recorded
  <2>3. QED BY <2>1, <2>2 DEF SameView
<1>4. JobProgress'
  <2>1. \A r \in job'.rms \cup job'.adds : <<r.zone, r.name>> \in job'.names
    BY JobStarts
  <2>2. ASSUME NEW z \in Zones, job'.step[z] \in {"latest", "done"},
               NEW n \in Names, <<z, n>> \in job'.names
        PROVE  FALSE
    <3>0. job'.names = {<<r.zone, r.name>> : r \in rms \cup adds}
      BY JobStarts
    <3>1. PICK r \in rms \cup adds : r.zone = z
      BY <2>2, <3>0
    <3>2. z \in opened /\ IsDirty(z)
      BY <3>1 DEF SafeInv, BuildersHaveSerial, IsDirty
    <3>3. QED BY <2>2, <3>2, JobStarts
  <2>3. job'.stage # "vms"
    BY JobStarts
  <2>4. QED BY <2>1, <2>2, <2>3 DEF JobProgress
<1>5. RecordsMove'
  BY JobStarts DEF RecordsMove
<1>6. Lock'
  BY <1>2, JobStarts DEF SafeInv, Lock
<1>7. BuildersHaveSerial'
  BY <1>2 DEF BuildersHaveSerial
<1>8. OnlyGiven' /\ WriteHasSerial'
  BY JobStarts, SameWrite
<1>9. QED BY <1>3, <1>4, <1>5, <1>6, <1>7, <1>8 DEF SafeInv

(* The callers, the timer and the listeners.                               *)
Calls == \/ PollStart \/ TimerFires \/ RunListener \/ Tick
         \/ \E cb \in BOOLEAN : PollDone(cb)

LEMMA CallerStep ==
    ASSUME SafeInv, TypeOK', Calls
    PROVE  SafeInv' /\ SameView
<1> USE DEF memory, redis
<1>0. ASSUME NEW cb \in BOOLEAN, DeferClose(cb)
      PROVE  UNCHANGED <<serial, busy, job, opened, rms, adds>>
  BY <1>0 DEF DeferClose
<1>1. CASE Tick
  BY <1>1, QuietStep DEF Tick, RecordVars
<1>2. CASE PollStart
  <2>1. PICK t \in BOOLEAN : OpenSerial(t)
    BY <1>2 DEF PollStart
  <2>2. UNCHANGED RecordVars /\ UNCHANGED <<write, busy>> /\ serial' # NoSerial
    BY <1>2, <2>1, OpenStep DEF PollStart, RecordVars
  <2>3. BuildersHaveSerial'
    BY <2>1, <2>2, OpenStep DEF SafeInv, BuildersHaveSerial, RecordVars
  <2>4. Lock'
    BY <2>2 DEF SafeInv, Lock, RecordVars
  <2>5. OnlyGiven' /\ WriteHasSerial'
    BY <2>2, SameWrite DEF RecordVars
  <2>6. QED BY <2>2, <2>3, <2>4, <2>5, SameRecords DEF SafeInv
<1>3. ASSUME NEW cb \in BOOLEAN, PollDone(cb) PROVE SafeInv' /\ SameView
  <2>1. CASE StartCommit(cb) /\ busy = "idle"
    BY <1>3, <2>1, StartStep DEF PollDone
  <2>2. CASE DeferClose(cb) \/ UNCHANGED <<serial, busy, opened, rms, adds, job>>
    BY <1>0, <1>3, <2>2, QuietStep DEF PollDone, RecordVars
  <2>3. QED BY <1>3, <2>1, <2>2 DEF PollDone
<1>4. CASE TimerFires
  <2>1. CASE StartCommit(FALSE) /\ busy = "idle"
    BY <1>4, <2>1, StartStep DEF TimerFires
  <2>2. CASE DeferClose(FALSE)
    BY <1>0, <1>4, <2>2, QuietStep DEF TimerFires, RecordVars
  <2>3. QED BY <1>4, <2>1, <2>2 DEF TimerFires
<1>5. CASE RunListener
  <2> DEFINE w == Head(turn)
  <2>0. w.cb \in BOOLEAN
    BY <1>5, ListenerTypes DEF RunListener, Quiet, SafeInv, TypeOK, Waiters
  <2>1. CASE /\ busy = "idle" /\ busy' = "write"
             /\ write' = [write EXCEPT !.stage = "fetch"]
             /\ UNCHANGED <<serial, opened, rms, adds, job>>
    <3>1. UNCHANGED RecordVars
      BY <1>5, <2>1 DEF RunListener, RecordVars
    <3>2. /\ write'.stage = "fetch" /\ write'.vm = write.vm
          /\ write'.want = write.want
      BY <2>1 DEF SafeInv, TypeOK, Writes, Lock
    <3>3. Lock' /\ BuildersHaveSerial' /\ WriteHasSerial'
      BY <2>1, <3>1, <3>2 DEF SafeInv, Lock, BuildersHaveSerial, RecordVars,
                              WriteHasSerial
    <3>4. OnlyGiven'
      BY <3>1, <3>2 DEF SafeInv, OnlyGiven, Given, RecordVars
    <3>5. QED BY <3>1, <3>3, <3>4, SameRecords DEF SafeInv
  <2>2. CASE StartCommit(w.cb) /\ busy = "idle" /\ UNCHANGED write
    BY <1>5, <2>0, <2>2, StartStep DEF RunListener
  <2>3. CASE UNCHANGED <<serial, busy, opened, rms, adds, job, write>>
    BY <1>5, <2>3, QuietStep DEF RunListener, RecordVars
  <2>4. QED BY <1>5, <2>1, <2>2, <2>3 DEF RunListener
<1>6. QED BY <1>1, <1>2, <1>3, <1>4, <1>5 DEF Calls

-----------------------------------------------------------------------------
(* A write.                                                                *)

LEMMA WriteBegins ==
    ASSUME SafeInv, TypeOK', NEW v \in VMs, NEW W \in Wants[v], Write(v, W)
    PROVE  SafeInv' /\ SameView
<1> USE DEF memory, redis
<1>1. UNCHANGED RecordVars /\ UNCHANGED <<serial, opened>>
  BY DEF Write, RecordVars
<1>2. /\ write.stage = "none" /\ write'.vm = v /\ write'.want = W
      /\ write'.stage \in {"fetch", "waiting"}
      /\ write'.stage = "fetch" => busy = "idle" /\ busy' = "write"
      /\ write'.stage = "waiting" => busy # "idle" /\ busy' = busy
  BY DEF Write
<1>3. busy \in {"idle", "write", "commit"}
  BY DEF SafeInv, TypeOK
<1>4. Lock' /\ BuildersHaveSerial' /\ WriteHasSerial'
  BY <1>1, <1>2, <1>3 DEF SafeInv, Lock, BuildersHaveSerial, RecordVars, WriteHasSerial
<1>5. OnlyGiven'
  BY <1>1, <1>2 DEF SafeInv, OnlyGiven, Given, RecordVars
<1>6. QED BY <1>1, <1>4, <1>5, SameRecords DEF SafeInv

(* While a write runs no commit does, so what zone.list shows is what is   *)
(* pending.                                                                *)
LEMMA WriteRuns ==
    ASSUME SafeInv, write.stage \in {"fetch", "remove", "set"}
    PROVE  /\ busy = "write" /\ job = NoJob
           /\ Pending = List /\ List \subseteq Records
           /\ \A v \in VMs : Recorded(v) = IF vmsToCommit[v] # Undef
                                           THEN vmsToCommit[v] ELSE lastRecs[v]
<1>1. busy = "write" /\ job = NoJob
  BY DEF SafeInv, Lock
<1>2. QED BY <1>1 DEF Pending, List, NoJob, SafeInv, TypeOK, Recorded

LEMMA FetchStep ==
    ASSUME SafeInv, TypeOK', FetchLastRecs
    PROVE  /\ SafeInv' /\ SameView
           /\ write'.stage = "remove" /\ write'.vm = write.vm
           /\ write'.want = write.want /\ write'.old = Recorded(write.vm)
<1> USE DEF memory, redis
<1> DEFINE old == IF vmsToCommit[write.vm] # Undef THEN vmsToCommit[write.vm]
                  ELSE lastRecs[write.vm]
<1>0. write.vm \in VMs /\ write.stage = "fetch"
  BY DEF SafeInv, TypeOK, Writes, FetchLastRecs
<1>1. /\ write'.stage = "remove" /\ write'.vm = write.vm
      /\ write'.want = write.want /\ write'.old = old
      /\ old = Recorded(write.vm)
  BY <1>0, WriteRuns DEF FetchLastRecs, SafeInv, TypeOK, Writes
<1>2. /\ rms' = rms /\ adds' = adds
      /\ \A r \in rms \cup adds : r.zone \in opened'
      /\ serial' = NoSerial => rms = {} /\ adds = {}
  <2>1. CASE OpenSerial(TRUE)
    BY <2>1, OpenStep
  <2>2. CASE UNCHANGED <<serial, timer, opened, from, rms, adds>>
    BY <2>2 DEF SafeInv, BuildersHaveSerial
  <2>3. QED BY <2>1, <2>2 DEF FetchLastRecs
<1>3. UNCHANGED RecordVars /\ UNCHANGED busy
  BY <1>2 DEF FetchLastRecs, RecordVars
<1>4. Lock'
  BY <1>0, <1>1, <1>3 DEF SafeInv, Lock, RecordVars
<1>5. BuildersHaveSerial'
  BY <1>2, <1>3 DEF SafeInv, BuildersHaveSerial, RecordVars
<1>6. WriteHasSerial'
  <2>1. Dropped(write.old, write.want)' = Dropped(old, write.want)
    BY <1>1 DEF Dropped
  <2>2. QED BY <1>1, <2>1, OpenStep DEF FetchLastRecs, WriteHasSerial
<1>7. OnlyGiven'
  <2>1. old \in Given(write.vm)
    <3>1. lastRecs[write.vm] # Undef
      BY <1>0, WantsAssumption DEF SafeInv, TypeOK
    <3>2. QED BY <1>0, <3>1 DEF SafeInv, OnlyGiven
  <2> HIDE DEF old
  <2>2. QED BY <1>1, <1>3, <2>1 DEF SafeInv, OnlyGiven, Given, RecordVars
<1>8. QED BY <1>1, <1>3, <1>4, <1>5, <1>6, <1>7, SameRecords DEF SafeInv

(* Removing R from what is listed, and adding what is not listed.          *)
LEMMA BuilderStep ==
    ASSUME SafeInv, busy = "write", NEW R, R \subseteq List, NEW A,
           A \cap List = {}, NEW Z, OpenZones(Z),
           Remove(R, A), \A r \in R \cup A : r.zone \in Z,
           UNCHANGED <<content, job, serial>>,
           serial # NoSerial \/ R \cup A = {}, busy' # "commit"
    PROVE  /\ Pending' = (List \ R) \cup A
           /\ BuildersHaveSerial'
<1>1. job = NoJob
  BY DEF SafeInv, Lock
<1>2. /\ adds \cap content \subseteq rms
      /\ \A r \in rms \cup adds : r.zone \in opened
      /\ serial = NoSerial => rms = {} /\ adds = {}
  BY DEF SafeInv, BuildersHaveSerial
<1>3. rms' = rms \cup (R \ adds) /\ adds' = (adds \ R) \cup A
  BY DEF Remove
<1>4. Pending' = (content \ rms') \cup adds'
  BY <1>1 DEF Pending, NoJob
<1>5. (content \ rms') \cup adds' = (List \ R) \cup A
  BY <1>2, <1>3 DEF List
<1>6. adds' \cap content \subseteq rms'
  BY <1>2, <1>3 DEF List
<1>7. \A r \in rms' \cup adds' : r.zone \in opened'
  BY <1>2, <1>3 DEF OpenZones
<1>8. serial' = NoSerial => rms' = {} /\ adds' = {}
  BY <1>2, <1>3
<1>9. QED BY <1>4, <1>5, <1>6, <1>7, <1>8 DEF BuildersHaveSerial

(* The entries a write no longer wants are gone from what is pending.      *)
LEMMA RemoveStep ==
    ASSUME SafeInv, TypeOK', RemoveEntries,
           NEW E, E = Dropped(write.old, write.want)
    PROVE  /\ SafeInv' /\ Pending' = Pending \ Matching(E)
           /\ \A v \in VMs : Recorded(v)' = Recorded(v)
           /\ write' = [write EXCEPT !.stage = "set"]
           /\ vmsToCommit' = vmsToCommit
<1> USE DEF memory, redis
<1>1. write.stage = "remove" /\ write.vm \in VMs
  BY DEF SafeInv, TypeOK, Writes, RemoveEntries
<1>2. busy = "write" /\ job = NoJob /\ Pending = List
  BY <1>1, WriteRuns
<1>3. /\ write' = [write EXCEPT !.stage = "set"]
      /\ write'.stage = "set" /\ write'.vm = write.vm
      /\ write'.want = write.want /\ write'.old = write.old
  BY DEF RemoveEntries, SafeInv, TypeOK, Writes
<1>4. /\ UNCHANGED <<content, job, serial, busy, vmsToCommit, lastRecs>>
      /\ OpenZones(ZonesOf(E)) /\ Remove(Matching(E), {})
  BY DEF RemoveEntries
<1>5. Matching(E) \subseteq List
  BY DEF Matching
<1>6. \A r \in Matching(E) : r.zone \in ZonesOf(E)
  BY DEF Matching, RecMatch, SameName, ZonesOf
<1>7. serial # NoSerial \/ Matching(E) = {}
  <2>1. E = {} => Matching(E) = {}
    BY DEF Matching
  <2>2. E # {} => serial # NoSerial
    BY <1>1 DEF SafeInv, WriteHasSerial
  <2>3. QED BY <2>1, <2>2
<1>8. Pending' = List \ Matching(E) /\ BuildersHaveSerial'
  <2>1. {} \cap List = {} /\ Matching(E) \cup {} = Matching(E) /\ busy' # "commit"
    BY <1>2, <1>4
  <2>2. Pending' = (List \ Matching(E)) \cup {} /\ BuildersHaveSerial'
    BY <1>2, <1>4, <1>5, <1>6, <1>7, <2>1, BuilderStep
  <2>3. QED BY <2>2
<1>9. \A v \in VMs : Recorded(v)' = Recorded(v)
  BY <1>4 DEF Recorded
<1>10. WriteHasSerial'
  <2>1. Dropped(write.old, write.want)' = E
    BY <1>3 DEF Dropped
  <2>2. QED BY <1>1, <1>3, <1>4, <2>1 DEF SafeInv, WriteHasSerial
<1>11. OnlyGiven'
  BY <1>1, <1>3, <1>4 DEF SafeInv, OnlyGiven, Given
<1>12. Lock' /\ RecordsMove' /\ JobProgress'
  BY <1>1, <1>3, <1>4 DEF SafeInv, Lock, RecordsMove, JobProgress
<1>13. QED BY <1>2, <1>3, <1>4, <1>8, <1>9, <1>10, <1>11, <1>12 DEF SafeInv

LEMMA SetStep ==
    ASSUME SafeInv, TypeOK', SetEntries,
           NEW v \in VMs, v = write.vm, NEW W, W = write.want
    PROVE  /\ SafeInv' /\ write.stage = "set" /\ write' = NoWrite
           /\ Pending' = (List \ Surplus(W)) \cup Missing(W)
           /\ vmsToCommit'[v] = W /\ Recorded(v)' = W
           /\ \A u \in VMs \ {v} : /\ vmsToCommit'[u] = vmsToCommit[u]
                                   /\ Recorded(u)' = Recorded(u)
<1> USE DEF memory, redis
<1>1. write.stage = "set"
  BY DEF SetEntries
<1>2. busy = "write" /\ job = NoJob
  BY <1>1, WriteRuns
<1>3. W \in Given(v) /\ W # Undef /\ (W # {} => serial # NoSerial)
  BY <1>1, GivenOf DEF SafeInv, OnlyGiven, WriteHasSerial
<1>4. /\ UNCHANGED <<content, job, serial, lastRecs>>
      /\ vmsToCommit' = [vmsToCommit EXCEPT ![v] = W]
      /\ write' = NoWrite /\ busy' = "idle"
      /\ OpenZones(ZonesOf(W)) /\ Remove(Surplus(W), Missing(W))
  BY DEF SetEntries, BusyDone
<1>5. Surplus(W) \subseteq List /\ Missing(W) \cap List = {}
  BY DEF Surplus, Missing, RecMatch, SameName, InSrc
<1>6. \A r \in Surplus(W) \cup Missing(W) : r.zone \in ZonesOf(W)
  BY DEF Surplus, Missing, SameName, ZonesOf
<1>7. serial # NoSerial \/ Surplus(W) \cup Missing(W) = {}
  <2>1. W = {} => Surplus(W) \cup Missing(W) = {}
    BY DEF Surplus, Missing
  <2>2. QED BY <1>3, <2>1
<1>8. Pending' = (List \ Surplus(W)) \cup Missing(W) /\ BuildersHaveSerial'
  <2>1. busy' # "commit"
    BY <1>4
  <2>2. QED BY <1>2, <1>4, <1>5, <1>6, <1>7, <2>1, BuilderStep
<1>9. /\ vmsToCommit'[v] = W
      /\ \A u \in VMs \ {v} : vmsToCommit'[u] = vmsToCommit[u]
  BY <1>4 DEF SafeInv, TypeOK
<1>10. /\ Recorded(v)' = W
       /\ \A u \in VMs \ {v} : Recorded(u)' = Recorded(u)
  <2>1. \A u \in VMs : Recorded(u)' =
            IF vmsToCommit'[u] # Undef THEN vmsToCommit'[u]
            ELSE IF job.recs[u] # Undef THEN job.recs[u] ELSE lastRecs[u]
    BY <1>4 DEF Recorded
  <2>2. QED BY <1>3, <1>9, <2>1 DEF Recorded
<1>11. OnlyGiven'
  <2>1. \A u \in VMs : {vmsToCommit'[u], job'.recs[u], lastRecs'[u]}
                       \subseteq {Undef} \cup Given(u)
    BY <1>3, <1>4, <1>9 DEF SafeInv, OnlyGiven
  <2>2. write'.want = {} /\ write'.stage = "none"
    BY <1>4 DEF NoWrite
  <2>3. QED BY <2>1, <2>2 DEF OnlyGiven, Given
<1>12. Lock' /\ WriteHasSerial'
  BY <1>2, <1>4 DEF SafeInv, Lock, NoWrite, NoJob, WriteHasSerial
<1>13. RecordsMove' /\ JobProgress'
  BY <1>2, <1>4 DEF RecordsMove, JobProgress, NoJob, SafeInv
<1>14. QED BY <1>1, <1>4, <1>8, <1>9, <1>10, <1>11, <1>12, <1>13 DEF SafeInv

-----------------------------------------------------------------------------
(* A commit.                                                               *)

(* When the zones are committed redis holds what was pending.              *)
LEMMA Committed ==
    ASSUME SafeInv, job.stage = "vms"
    PROVE  Pending = content
<1>1. rms = {} /\ adds = {}
  BY DEF SafeInv, Lock, BuildersHaveSerial
<1>2. ASSUME NEW r \in job.rms \cup job.adds PROVE <<r.zone, r.name>> \notin job.names
  <2>1. r.zone \in Zones /\ r.name \in Names
    BY RecordsAssumption DEF SafeInv, TypeOK, Jobs
  <2>2. job.step[r.zone] = "done"
    BY <2>1 DEF SafeInv, JobProgress
  <2>3. QED BY <2>1, <2>2 DEF SafeInv, JobProgress
<1>3. job.adds \subseteq content /\ job.rms \cap content \subseteq job.adds
  BY <1>2 DEF SafeInv, JobProgress
<1>4. QED BY <1>1, <1>3 DEF Pending

LEMMA CommitRuns ==
    ASSUME SafeInv, CommitStep
    PROVE  /\ job.stage # "none" /\ busy = "commit" /\ rms = {} /\ adds = {}
           /\ write.stage \notin {"fetch", "remove", "set"} /\ UNCHANGED write
<1>1. job.stage # "none"
  BY DEF CommitStep, PushRemoves, PushAdds, CommitName, PushAll, SetLatest,
         SaveNSRecords, StartVMRecords, SaveVMRecord, FinishCommit, VMRecordsSaved,
         SafeInv, Lock, NoJob
<1>2. UNCHANGED write
  BY DEF CommitStep, PushRemoves, PushAdds, CommitName, PushAll, SetLatest,
         SaveNSRecords, StartVMRecords, SaveVMRecord, FinishCommit, CommitUnchanged
<1>3. QED BY <1>1, <1>2 DEF SafeInv, Lock, BuildersHaveSerial

LEMMA CommitSafe ==
    ASSUME SafeInv, TypeOK', CommitStep
    PROVE  SafeInv' /\ SameView
<1> USE DEF redis
<1>0. /\ job.stage # "none" /\ busy = "commit" /\ rms = {} /\ adds = {}
      /\ write.stage \notin {"fetch", "remove", "set"}
  BY CommitRuns
<1>j. job \in Jobs
  BY DEF SafeInv, TypeOK
(* What all steps but the last have in common.                             *)
<1>k. ASSUME SameView, CommitUnchanged, JobProgress', RecordsMove', OnlyGiven',
             job'.stage # "none"
      PROVE  SafeInv' /\ SameView
  <2>1. UNCHANGED <<rms, adds, busy, serial, opened, write>>
    BY <1>k DEF CommitUnchanged
  <2>2. Lock' /\ BuildersHaveSerial' /\ WriteHasSerial'
    BY <1>0, <1>k, <2>1 DEF Lock, BuildersHaveSerial, WriteHasSerial
  <2>3. QED BY <1>k, <2>2 DEF SafeInv
<1>g. ASSUME UNCHANGED <<write, vmsToCommit, lastRecs>>,
             \A v \in VMs : job'.recs[v] = job.recs[v]
      PROVE  OnlyGiven'
  BY <1>g DEF SafeInv, OnlyGiven, Given
(* A zone moves on: neither names nor records change.                      *)
<1>z. ASSUME NEW z \in Zones, NEW s \in ZoneSteps, CommitUnchanged,
             job' = [job EXCEPT !.step[z] = s], job.stage = "zones",
             s \in {"latest", "done"} => ~ \E n \in Names : <<z, n>> \in job.names,
             UNCHANGED <<content, lastRecs, vmsToCommit>>
      PROVE  SafeInv' /\ SameView
  <2>1. /\ job'.stage = "zones" /\ job'.rms = job.rms /\ job'.adds = job.adds
        /\ job'.names = job.names /\ job'.recs = job.recs
        /\ \A y \in Zones : job'.step[y] = IF y = z THEN s ELSE job.step[y]
    BY <1>z, <1>j DEF Jobs
  <2>2. UNCHANGED <<rms, adds, write>>
    BY <1>z DEF CommitUnchanged
  <2>3. SameView
    BY <1>z, <2>1, <2>2 DEF SameView, Pending, Recorded
  <2>4. JobProgress'
    BY <1>z, <2>1 DEF SafeInv, JobProgress
  <2>5. RecordsMove' /\ OnlyGiven'
    BY <1>z, <1>g, <2>1, <2>2 DEF SafeInv, RecordsMove
  <2>6. QED BY <1>k, <1>z, <2>1, <2>3, <2>4, <2>5
<1>1. ASSUME NEW z \in Zones, PushRemoves(z) \/ PushAdds(z) \/ PushAll(z)
      PROVE  SafeInv' /\ SameView
  BY <1>1, <1>z DEF PushRemoves, PushAdds, PushAll, ZoneSteps
<1>2. ASSUME NEW z \in Zones, SetLatest(z) PROVE SafeInv' /\ SameView
  <2>1. ~ \E n \in Names : <<z, n>> \in job.names
    BY <1>2 DEF SetLatest, SafeInv, JobProgress
  <2>2. QED BY <1>2, <1>z, <2>1 DEF SetLatest, ZoneSteps
<1>3. ASSUME NEW z \in Zones, NEW n \in Names, CommitName(z, n)
      PROVE  SafeInv' /\ SameView
  <2>1. /\ job'.stage = "zones" /\ job'.rms = job.rms /\ job'.adds = job.adds
        /\ job'.names = job.names \ {<<z, n>>} /\ job'.recs = job.recs
        /\ job'.step = job.step /\ job.stage = "zones"
    BY <1>3, <1>j DEF CommitName, Jobs
  <2>2. /\ content' = (content \ Under(job.rms, z, n)) \cup Under(job.adds, z, n)
        /\ CommitUnchanged /\ UNCHANGED <<lastRecs, vmsToCommit>>
    BY <1>3 DEF CommitName
  <2>3. rms' = {} /\ adds' = {} /\ UNCHANGED write
    BY <1>0, <2>2 DEF CommitUnchanged
  <2>4. (content' \ job.rms) \cup job.adds = (content \ job.rms) \cup job.adds
    BY <2>2 DEF Under
  <2>5. SameView
    BY <1>0, <2>1, <2>2, <2>3, <2>4 DEF SameView, Pending, Recorded
  <2>6. ASSUME NEW r \in job.rms \cup job.adds, <<r.zone, r.name>> \notin job'.names
        PROVE  /\ r \in job.adds => r \in content'
               /\ r \in job.rms => r \notin content' \/ r \in job.adds
    <3>1. CASE r.zone = z /\ r.name = n
      BY <2>2, <3>1 DEF Under
    <3>2. CASE ~(r.zone = z /\ r.name = n)
      <4>1. <<r.zone, r.name>> \notin job.names
        BY <2>1, <2>6, <3>2
      <4>2. r \in content' <=> r \in content
        BY <2>2, <3>2 DEF Under
      <4>3. QED BY <4>1, <4>2 DEF SafeInv, JobProgress
    <3>3. QED BY <3>1, <3>2
  <2>7. JobProgress'
    BY <2>1, <2>6 DEF SafeInv, JobProgress
  <2>8. RecordsMove' /\ OnlyGiven'
    BY <1>g, <2>1, <2>2, <2>3 DEF SafeInv, RecordsMove
  <2>9. QED BY <1>k, <2>1, <2>2, <2>5, <2>7, <2>8
<1>4. ASSUME NEW z \in Zones, SaveNSRecords(z) PROVE SafeInv' /\ SameView
  <2>1. /\ job'.stage = "vms" /\ job'.rms = job.rms /\ job'.adds = job.adds
        /\ job'.names = job.names /\ job'.recs = job.recs
        /\ job'.step = job.step /\ job.stage = "vms"
    BY <1>4, <1>j DEF SaveNSRecords, VMRecordsSaved, Jobs
  <2>2. /\ CommitUnchanged /\ UNCHANGED <<content, lastRecs, vmsToCommit>>
        /\ UNCHANGED write
    BY <1>4 DEF SaveNSRecords, CommitUnchanged
  <2>3. SameView
    BY <2>1, <2>2 DEF SameView, Pending, Recorded, CommitUnchanged
  <2>4. JobProgress' /\ RecordsMove' /\ OnlyGiven'
    BY <1>g, <2>1, <2>2 DEF SafeInv, JobProgress, RecordsMove
  <2>5. QED BY <1>k, <2>1, <2>2, <2>3, <2>4
<1>5. CASE StartVMRecords
  <2>1. /\ job'.stage = "vms" /\ job'.rms = job.rms /\ job'.adds = job.adds
        /\ job'.names = job.names /\ job'.recs = vmsToCommit
        /\ job'.step = job.step /\ job.stage = "zones"
    BY <1>5, <1>j DEF StartVMRecords, Jobs
  <2>2. /\ CommitUnchanged /\ UNCHANGED <<content, lastRecs>> /\ UNCHANGED write
        /\ vmsToCommit' = [v \in VMs |-> Undef]
        /\ \A z \in Zones : job.step[z] = "done"
    BY <1>5 DEF StartVMRecords, CommitUnchanged
  <2>3. \A v \in VMs : job.recs[v] = Undef
    BY <2>1 DEF SafeInv, RecordsMove
  <2>4. SameView
    BY <2>1, <2>2, <2>3 DEF SameView, Pending, Recorded, CommitUnchanged
  <2>5. JobProgress' /\ RecordsMove' /\ OnlyGiven'
    BY <2>1, <2>2 DEF SafeInv, JobProgress, RecordsMove, OnlyGiven, Given
  <2>6. QED BY <1>k, <2>1, <2>2, <2>4, <2>5
<1>6. ASSUME NEW v \in VMs, SaveVMRecord(v) PROVE SafeInv' /\ SameView
  <2>1. /\ job'.stage = "vms" /\ job'.rms = job.rms /\ job'.adds = job.adds
        /\ job'.names = job.names /\ job'.step = job.step /\ job.stage = "vms"
        /\ \A u \in VMs : job'.recs[u] = IF u = v THEN Undef ELSE job.recs[u]
    BY <1>6, <1>j DEF SaveVMRecord, Jobs
  <2>2. /\ CommitUnchanged /\ UNCHANGED <<content, vmsToCommit>> /\ UNCHANGED write
        /\ \A u \in VMs : lastRecs'[u] = IF u = v THEN job.recs[v] ELSE lastRecs[u]
        /\ job.recs[v] # Undef
    BY <1>6 DEF SaveVMRecord, SafeInv, TypeOK, CommitUnchanged
  <2>3. \A u \in VMs : vmsToCommit[u] = Undef
    BY <2>1 DEF SafeInv, RecordsMove
  <2>4. SameView
    BY <2>1, <2>2, <2>3 DEF SameView, Pending, Recorded, CommitUnchanged
  <2>5. JobProgress' /\ RecordsMove' /\ OnlyGiven'
    BY <2>1, <2>2, <2>3 DEF SafeInv, JobProgress, RecordsMove, OnlyGiven, Given
  <2>6. QED BY <1>k, <2>1, <2>2, <2>4, <2>5
<1>7. CASE FinishCommit
  <2>1. job.stage = "vms" /\ \A v \in VMs : job.recs[v] = Undef
    BY <1>7 DEF FinishCommit, VMRecordsSaved
  <2>2. /\ job' = NoJob /\ busy' = "idle"
        /\ UNCHANGED <<serial, opened, rms, adds, vmsToCommit, write, content,
                       lastRecs>>
    BY <1>7 DEF FinishCommit, BusyDone
  <2>3. Pending = content /\ Pending' = content
    BY <1>0, <2>1, <2>2, Committed DEF Pending, NoJob
  <2>4. SameView
    BY <2>1, <2>2, <2>3 DEF SameView, Recorded, NoJob
  <2>5. Lock' /\ BuildersHaveSerial'
    BY <1>0, <2>2 DEF Lock, BuildersHaveSerial, NoJob
  <2>6. JobProgress' /\ RecordsMove'
    BY <2>2 DEF JobProgress, RecordsMove, NoJob
  <2>7. OnlyGiven' /\ WriteHasSerial'
    BY <2>1, <2>2, SameWrite DEF NoJob
  <2>8. QED BY <2>4, <2>5, <2>6, <2>7 DEF SafeInv
<1>8. QED
  BY <1>1, <1>2, <1>3, <1>4, <1>5, <1>6, <1>7 DEF CommitStep

-----------------------------------------------------------------------------
(* A crash leaves nothing that has begun.                                  *)
LEMMA CrashStep ==
    ASSUME SafeInv, TypeOK', Crash
    PROVE  SafeInv'
<1> USE DEF memory, redis
<1>1. /\ serial' = NoSerial /\ busy' = "idle" /\ rms' = {} /\ adds' = {}
      /\ opened' = {} /\ write' = NoWrite /\ job' = NoJob
      /\ vmsToCommit' = [v \in VMs |-> Undef] /\ UNCHANGED <<content, lastRecs>>
  BY DEF Crash
<1>2. Lock' /\ BuildersHaveSerial' /\ WriteHasSerial' /\ JobProgress' /\ RecordsMove'
  BY <1>1 DEF Lock, BuildersHaveSerial, WriteHasSerial, JobProgress, RecordsMove,
              NoJob, NoWrite
<1>3. OnlyGiven'
  <2>1. \A v \in VMs : job'.recs[v] = Undef /\ vmsToCommit'[v] = Undef
    BY <1>1 DEF NoJob
  <2>2. write'.want = {} /\ write'.stage = "none"
    BY <1>1 DEF NoWrite
  <2>3. QED BY <1>1, <2>1, <2>2 DEF SafeInv, OnlyGiven, Given
<1>4. QED BY <1>2, <1>3 DEF SafeInv

LEMMA SafeInit == Init => SafeInv
<1> SUFFICES ASSUME Init PROVE SafeInv
  OBVIOUS
<1>1. TypeOK
  BY InitType
<1>2. /\ Lock /\ BuildersHaveSerial /\ WriteHasSerial /\ JobProgress /\ RecordsMove
  BY DEF Init, Lock, BuildersHaveSerial, WriteHasSerial, JobProgress, RecordsMove,
         NoJob, NoWrite
<1>3. OnlyGiven
  BY DEF Init, OnlyGiven, Given, NoJob, NoWrite
<1>4. QED BY <1>1, <1>2, <1>3 DEF SafeInv

LEMMA SafeStep == SafeInv /\ [Next]_vars => SafeInv'
<1> SUFFICES ASSUME SafeInv, [Next]_vars PROVE SafeInv'
  OBVIOUS
<1>0. TypeOK'
  BY StepType DEF SafeInv
<1>1. CASE Calls
  BY <1>0, <1>1, CallerStep
<1>2. ASSUME NEW v \in VMs, NEW W \in Wants[v], Write(v, W) PROVE SafeInv'
  BY <1>0, <1>2, WriteBegins
<1>3. CASE WriteStep
  <2>1. write.vm \in VMs
    BY DEF SafeInv, TypeOK, Writes
  <2>2. SetEntries => SafeInv'
    BY <1>0, <2>1, SetStep
  <2>3. QED BY <1>0, <1>3, <2>2, FetchStep, RemoveStep DEF WriteStep
<1>4. CASE CommitStep
  BY <1>0, <1>4, CommitSafe
<1>5. CASE Crash
  BY <1>0, <1>5, CrashStep
<1>6. CASE UNCHANGED vars
  BY <1>0, <1>6, QuietStep DEF vars, memory, redis, RecordVars
<1>7. QED BY <1>1, <1>2, <1>3, <1>4, <1>5, <1>6, CallersAssumption DEF Next, Calls

LEMMA AlwaysSafe == Spec => []SafeInv
  BY SafeInit, SafeStep, PTL DEF Spec

-----------------------------------------------------------------------------
(* Records: what one VM's entries do to the records of its own and to the  *)
(* records of the others.                                                  *)

LEMMA SameRecord ==
    ASSUME NEW r \in Records, NEW s \in Records, RecMatch(r, s), r.src = s.src
    PROVE  r = s
<1>1. r \in [zone : Zones, name : Names, val : Vals, src : VMs \cup {NoSrc}]
  BY RecordsAssumption
<1>2. s \in [zone : Zones, name : Names, val : Vals, src : VMs \cup {NoSrc}]
  BY RecordsAssumption
<1>3. QED BY <1>1, <1>2 DEF RecMatch, SameName

(* Entries of v, found under a name of v's own records, have v's src or    *)
(* none, as the records there.                                             *)
LEMMA OwnSrc ==
    ASSUME NEW v \in VMs, NEW r \in Owned(v), NEW e \in Records,
           e.src \in {v, NoSrc}, SameName(r, e)
    PROVE  InSrc(r, e) /\ e.src = r.src
<1>1. r \in Records /\ r.src \in {v, NoSrc}
  BY DEF Owned
<1>2. r.src = NoSrc <=> e.src = NoSrc
  BY <1>1, RecordsAssumption
<1>3. QED BY <1>1, <1>2, RecordsAssumption DEF InSrc

(* No entry of v reaches a record only another VM can be given.            *)
LEMMA OtherSrc ==
    ASSUME NEW v \in VMs, NEW u \in VMs, u # v, NEW W \in Wants[v],
           NEW e \in W, NEW r \in Owned(u), SameName(r, e)
    PROVE  ~ InSrc(r, e)
<1>1. e \in Records /\ e.src \in {v, NoSrc}
  BY WantsAssumption
<1>2. r \in Records /\ (r.src = NoSrc <=> e.src = NoSrc)
  BY <1>1, RecordsAssumption DEF Owned
<1>3. CASE r.src = u
  BY <1>1, <1>2, <1>3, RecordsAssumption DEF InSrc
<1>4. CASE r.src = NoSrc
  <2>1. NoSrc # u
    BY RecordsAssumption
  <2>2. v \in VMs \ {u}
    OBVIOUS
  <2>3. ~ \E s \in W : SameName(r, s)
    BY <1>4, <2>1, <2>2 DEF Owned
  <2>4. QED BY <2>3
<1>5. QED BY <1>3, <1>4 DEF Owned

LEMMA MatchingOwn ==
    ASSUME List \subseteq Records, NEW v \in VMs, NEW W \in Given(v),
           NEW E \in SUBSET W
    PROVE  Matching(E) \cap Owned(v) = E \cap List \cap Owned(v)
<1>1. E \subseteq Records /\ \A e \in E : e.src \in {v, NoSrc}
  BY GivenOf
<1>2. ASSUME NEW r \in Matching(E) \cap Owned(v) PROVE r \in E
  <2>1. PICK e \in E : RecMatch(r, e)
    BY <1>2 DEF Matching
  <2>2. e.src = r.src
    BY <1>1, <1>2, <2>1, OwnSrc DEF RecMatch
  <2>3. r \in Records
    BY DEF Owned
  <2>4. QED BY <1>1, <2>1, <2>2, <2>3, SameRecord
<1>3. ASSUME NEW r \in E \cap List PROVE r \in Matching(E)
  BY <1>3 DEF Matching, RecMatch, SameName, InSrc
<1>4. Matching(E) \subseteq List
  BY DEF Matching
<1>5. QED BY <1>2, <1>3, <1>4

LEMMA MatchingOther ==
    ASSUME NEW v \in VMs, NEW u \in VMs, u # v, NEW W \in Given(v),
           NEW E \in SUBSET W
    PROVE  Matching(E) \cap Owned(u) = {}
<1> SUFFICES ASSUME NEW r \in Matching(E), r \in Owned(u) PROVE FALSE
  OBVIOUS
<1>1. PICK e \in E : RecMatch(r, e) /\ InSrc(r, e)
  BY DEF Matching
<1>2. W \in Wants[v] /\ e \in W
  BY DEF Given
<1>3. QED BY <1>1, <1>2, OtherSrc DEF RecMatch

LEMMA SurplusOther ==
    ASSUME NEW v \in VMs, NEW u \in VMs, u # v, NEW W \in Given(v)
    PROVE  Surplus(W) \cap Owned(u) = {} /\ Missing(W) \cap Owned(u) = {}
<1>1. ASSUME NEW r \in Surplus(W), r \in Owned(u) PROVE FALSE
  <2>1. PICK w \in W : SameName(r, w) /\ InSrc(r, w)
    BY DEF Surplus
  <2>2. W \in Wants[v]
    BY <2>1 DEF Given
  <2>3. QED BY <1>1, <2>1, <2>2, OtherSrc
<1>2. ASSUME NEW r \in Missing(W), r \in Owned(u) PROVE FALSE
  <2>1. r \in W /\ W \in Wants[v]
    BY DEF Missing, Given
  <2>2. SameName(r, r) /\ InSrc(r, r)
    BY DEF SameName, InSrc
  <2>3. QED BY <1>2, <2>1, <2>2, OtherSrc
<1>3. QED BY <1>1, <1>2

(* Setting what v wants, once what it drops is gone: exactly that is left. *)
LEMMA SetOwn ==
    ASSUME List \subseteq Records, NEW v \in VMs,
           NEW old \in Given(v), NEW W \in Given(v),
           List \cap Owned(v) = (old \ Dropped(old, W)) \cap Owned(v)
    PROVE  ((List \ Surplus(W)) \cup Missing(W)) \cap Owned(v) = W \cap Owned(v)
<1>1. /\ W \subseteq Records /\ \A w \in W : w.src \in {v, NoSrc}
      /\ old \subseteq Records
  BY GivenOf
<1>2. ASSUME NEW r \in List \cap Owned(v), r \notin Surplus(W) PROVE r \in W
  <2>1. PICK w \in W : SameName(r, w)
    BY <1>2 DEF Dropped
  <2>2. InSrc(r, w)
    BY <1>1, <1>2, <2>1, OwnSrc
  <2>3. PICK x \in W : RecMatch(r, x)
    BY <1>2, <2>1, <2>2 DEF Surplus
  <2>4. x.src = r.src
    BY <1>1, <1>2, <2>3, OwnSrc DEF RecMatch
  <2>5. QED BY <1>1, <2>3, <2>4, SameRecord DEF Owned
<1>3. ASSUME NEW w \in W, w \in Owned(v)
      PROVE  w \in (List \ Surplus(W)) \cup Missing(W)
  <2>1. CASE w \in List
    <3>1. RecMatch(w, w)
      BY DEF RecMatch, SameName
    <3>2. QED BY <1>3, <2>1, <3>1 DEF Surplus
  <2>2. CASE w \notin List
    <3> SUFFICES ASSUME NEW r \in List, RecMatch(r, w), InSrc(r, w) PROVE FALSE
      BY <1>3 DEF Missing
    <3>1. r \in Records /\ w \in Records
      BY <1>1
    <3>2. r.src = NoSrc <=> w.src = NoSrc
      BY <3>1, RecordsAssumption DEF RecMatch
    <3>3. r.src = w.src
      BY <3>2 DEF InSrc
    <3>4. QED BY <2>2, <3>1, <3>3, SameRecord
  <2>3. QED BY <2>1, <2>2
<1>4. Missing(W) \subseteq W
  BY DEF Missing
<1>5. QED BY <1>2, <1>3, <1>4

-----------------------------------------------------------------------------
(* While nothing crashes.  A step after which memory and redis stand for   *)
(* the same records keeps what is exact exact, and the write on course.    *)

LEMMA KeepExact ==
    ASSUME SafeInv, ExactInv, SameView, UNCHANGED crashes,
           \/ UNCHANGED write
           \/ {write.stage, write'.stage} \cap {"remove", "set"} = {}
    PROVE  ExactInv'
<1>0. write.vm \in VMs
  BY DEF SafeInv, TypeOK, Writes
<1>1. crashes' = 0
  BY DEF ExactInv
<1>2. WriteProgress'
  BY <1>0 DEF ExactInv, WriteProgress, SameView, Owned, Dropped
<1>3. OwnRecordsExact'
  BY DEF ExactInv, OwnRecordsExact, SameView, Owned
<1>4. NoOrphans'
  <2> SUFFICES ASSUME NEW r \in Pending' PROVE \E v \in VMs : r \in Recorded(v)'
    BY DEF NoOrphans
  <2>1. PICK v \in VMs : r \in Recorded(v)
    BY DEF SameView, ExactInv, NoOrphans
  <2>2. QED BY <2>1 DEF SameView
<1>5. QED BY <1>1, <1>2, <1>3, <1>4 DEF ExactInv

(* A caller, the timer or a listener: at most the waiting write begins.    *)
LEMMA CallsWrite ==
    ASSUME SafeInv, Calls
    PROVE  /\ UNCHANGED <<crashes, vmsToCommit>>
           /\ \/ UNCHANGED write
              \/ {write.stage, write'.stage} \cap {"remove", "set"} = {}
<1> USE DEF memory, redis
<1>1. CASE RunListener
  <2>1. CASE busy = "idle" /\ write' = [write EXCEPT !.stage = "fetch"]
    <3>1. write'.stage = "fetch" /\ write.stage \notin {"remove", "set"}
      BY <2>1 DEF SafeInv, Lock, TypeOK, Writes
    <3>2. QED BY <1>1, <3>1 DEF RunListener
  <2>2. CASE UNCHANGED write
    BY <1>1, <2>2 DEF RunListener
  <2>3. QED BY <1>1, <2>1, <2>2 DEF RunListener
<1>2. CASE ~RunListener
  BY <1>2 DEF Calls, Tick, PollStart, PollDone, TimerFires
<1>3. QED BY <1>1, <1>2

LEMMA FetchExact ==
    ASSUME SafeInv, ExactInv, TypeOK', FetchLastRecs
    PROVE  ExactInv'
<1>1. /\ SameView /\ write'.stage = "remove" /\ write'.vm = write.vm
      /\ write'.old = Recorded(write.vm)
  BY FetchStep
<1>2. write.stage = "fetch" /\ UNCHANGED crashes /\ write.vm \in VMs
  BY DEF FetchLastRecs, SafeInv, TypeOK, Writes
<1>3. WriteProgress'
  BY <1>1, <1>2 DEF WriteProgress, SameView
<1>4. OwnRecordsExact'
  BY <1>1, <1>2 DEF ExactInv, OwnRecordsExact, SameView, Owned
<1>5. NoOrphans'
  <2> SUFFICES ASSUME NEW r \in Pending' PROVE \E v \in VMs : r \in Recorded(v)'
    BY DEF NoOrphans
  <2>1. PICK v \in VMs : r \in Recorded(v)
    BY <1>1 DEF SameView, ExactInv, NoOrphans
  <2>2. QED BY <1>1, <2>1 DEF SameView
<1>6. QED BY <1>2, <1>3, <1>4, <1>5 DEF ExactInv

(* What v drops is gone, its own and what it had of shared names.          *)
LEMMA RemoveExact ==
    ASSUME SafeInv, ExactInv, TypeOK', RemoveEntries,
           NEW v \in VMs, v = write.vm,
           NEW E, E = Dropped(write.old, write.want)
    PROVE  ExactInv'
<1>1. write.stage = "remove" /\ UNCHANGED crashes /\ write.old \in Given(v)
  BY DEF RemoveEntries, SafeInv, OnlyGiven
<1>2. Pending = List /\ List \subseteq Records
  BY <1>1, WriteRuns
<1>3. /\ Pending' = Pending \ Matching(E)
      /\ \A u \in VMs : Recorded(u)' = Recorded(u)
      /\ write' = [write EXCEPT !.stage = "set"]
  BY RemoveStep
<1>4. /\ write'.stage = "set" /\ write'.vm = v /\ write'.old = write.old
      /\ write'.want = write.want
  BY <1>3 DEF SafeInv, TypeOK, Writes
<1>5. E \subseteq write.old
  BY DEF Dropped
<1>6. write.old = Recorded(v) /\ List \cap Owned(v) = write.old \cap Owned(v)
  BY <1>1, <1>2 DEF ExactInv, WriteProgress, OwnRecordsExact
<1>7. ASSUME NEW u \in VMs, u # v
      PROVE  Pending' \cap Owned(u) = Recorded(u)' \cap Owned(u)
  <2>1. Matching(E) \cap Owned(u) = {}
    BY <1>1, <1>5, <1>7, MatchingOther
  <2>2. Pending \cap Owned(u) = Recorded(u) \cap Owned(u)
    BY <1>1, <1>7 DEF ExactInv, OwnRecordsExact
  <2>3. QED BY <1>3, <2>1, <2>2
<1>8. OwnRecordsExact'
  BY <1>4, <1>7 DEF OwnRecordsExact, Owned
<1>9. Pending' \cap Owned(v) = (write.old \ E) \cap Owned(v)
  <2>1. Matching(E) \cap Owned(v) = E \cap List \cap Owned(v)
    BY <1>1, <1>2, <1>5, MatchingOwn
  <2>2. QED BY <1>2, <1>3, <1>6, <2>1
<1>10. Pending' \cap E = {}
  <2>1. E \cap List \subseteq Matching(E)
    BY DEF Matching, RecMatch, SameName, InSrc
  <2>2. QED BY <1>2, <1>3, <2>1
<1>11. WriteProgress'
  <2>1. Dropped(write.old, write.want)' = E /\ Owned(write.vm)' = Owned(v)
    BY <1>4 DEF Dropped, Owned
  <2>2. Recorded(write.vm)' = Recorded(v)
    BY <1>3, <1>4 DEF Recorded
  <2>3. QED BY <1>4, <1>6, <1>9, <1>10, <2>1, <2>2 DEF WriteProgress
<1>12. NoOrphans'
  <2> SUFFICES ASSUME NEW r \in Pending' PROVE \E u \in VMs : r \in Recorded(u)'
    BY DEF NoOrphans
  <2>1. PICK u \in VMs : r \in Recorded(u)
    BY <1>3 DEF ExactInv, NoOrphans
  <2>2. QED BY <1>3, <2>1
<1>13. QED BY <1>1, <1>8, <1>11, <1>12 DEF ExactInv

(* Of what v had, only what it wants is left.                              *)
LEMMA SetLeaves ==
    ASSUME NEW v \in VMs, NEW old \in Given(v), NEW W \in Given(v),
           NEW r \in old, r \in List, r \notin Surplus(W), r \notin Dropped(old, W)
    PROVE  r \in W
<1>1. PICK w \in W : SameName(r, w)
  BY DEF Dropped
<1>2. /\ r \in Records /\ r.src \in {v, NoSrc}
      /\ \A x \in W : x \in Records /\ x.src \in {v, NoSrc}
  BY GivenOf
<1>3. \A x \in W : SameName(r, x) => r.src = x.src
  BY <1>2, RecordsAssumption
<1>4. PICK x \in W : RecMatch(r, x)
  BY <1>1, <1>3 DEF Surplus, InSrc
<1>5. QED BY <1>2, <1>3, <1>4, SameRecord DEF RecMatch

LEMMA SetExact ==
    ASSUME SafeInv, ExactInv, TypeOK', SetEntries,
           NEW v \in VMs, v = write.vm, NEW W, W = write.want
    PROVE  ExactInv'
<1>1. /\ write.stage = "set" /\ write' = NoWrite
      /\ Pending' = (List \ Surplus(W)) \cup Missing(W) /\ Recorded(v)' = W
      /\ \A u \in VMs \ {v} : Recorded(u)' = Recorded(u)
  BY SetStep
<1>2. Pending = List /\ List \subseteq Records
  BY <1>1, WriteRuns
<1>3. /\ UNCHANGED crashes /\ W \in Given(v) /\ write.old \in Given(v)
  BY <1>1 DEF SetEntries, SafeInv, OnlyGiven
<1>4. /\ write.old = Recorded(v)
      /\ List \cap Owned(v) = (write.old \ Dropped(write.old, W)) \cap Owned(v)
      /\ List \cap Dropped(write.old, W) = {}
  BY <1>1, <1>2 DEF ExactInv, WriteProgress
<1>5. ASSUME NEW u \in VMs
      PROVE  Pending' \cap Owned(u) = Recorded(u)' \cap Owned(u)
  <2>1. CASE u = v
    BY <1>1, <1>2, <1>3, <1>4, <2>1, SetOwn
  <2>2. CASE u # v
    <3>1. Surplus(W) \cap Owned(u) = {} /\ Missing(W) \cap Owned(u) = {}
      BY <1>3, <2>2, SurplusOther
    <3>2. Pending \cap Owned(u) = Recorded(u) \cap Owned(u)
      BY <2>2 DEF ExactInv, OwnRecordsExact
    <3>3. QED BY <1>1, <1>2, <2>2, <3>1, <3>2
  <2>3. QED BY <2>1, <2>2
<1>6. OwnRecordsExact'
  BY <1>5 DEF OwnRecordsExact, Owned
<1>7. NoOrphans'
  <2> SUFFICES ASSUME NEW r \in Pending' PROVE \E u \in VMs : r \in Recorded(u)'
    BY DEF NoOrphans
  <2>1. CASE r \in W
    BY <1>1, <2>1
  <2>2. CASE r \notin W
    <3>1. r \in List /\ r \notin Surplus(W)
      BY <1>1, <2>2 DEF Missing
    <3>2. PICK u \in VMs : r \in Recorded(u)
      BY <1>2, <3>1 DEF ExactInv, NoOrphans
    <3>3. u # v
      BY <1>3, <1>4, <2>2, <3>1, <3>2, SetLeaves
    <3>4. QED BY <1>1, <3>2, <3>3
  <2>3. QED BY <2>1, <2>2
<1>8. WriteProgress'
  BY <1>1 DEF WriteProgress, NoWrite
<1>9. QED BY <1>3, <1>6, <1>7, <1>8 DEF ExactInv

LEMMA ExactInit == Init => ExactInv
<1> SUFFICES ASSUME Init PROVE ExactInv
  OBVIOUS
<1>1. \A v \in VMs : Recorded(v) = {}
  BY DEF Init, Recorded, NoJob
<1>2. Pending = {} /\ crashes = 0 /\ write = NoWrite
  BY DEF Init, Pending, NoJob
<1>3. QED
  BY <1>1, <1>2 DEF ExactInv, WriteProgress, OwnRecordsExact, NoOrphans, NoWrite

LEMMA ExactStep ==
    ASSUME MaxCrashes = 0, SafeInv, ExactInv, [Next]_vars
    PROVE  ExactInv'
<1>0. TypeOK'
  BY StepType DEF SafeInv
<1>1. CASE Calls
  BY <1>0, <1>1, CallerStep, CallsWrite, KeepExact
<1>2. ASSUME NEW v \in VMs, NEW W \in Wants[v], Write(v, W) PROVE ExactInv'
  <2>1. SameView
    BY <1>0, <1>2, WriteBegins
  <2>2. /\ UNCHANGED crashes
        /\ {write.stage, write'.stage} \cap {"remove", "set"} = {}
    BY <1>2 DEF Write
  <2>3. QED BY <2>1, <2>2, KeepExact
<1>3. CASE WriteStep
  <2>1. write.vm \in VMs
    BY DEF SafeInv, TypeOK, Writes
  <2>2. RemoveEntries => ExactInv'
    BY <1>0, <2>1, RemoveExact
  <2>3. SetEntries => ExactInv'
    BY <1>0, <2>1, SetExact
  <2>4. QED BY <1>0, <1>3, <2>2, <2>3, FetchExact DEF WriteStep
<1>4. CASE CommitStep
  <2>1. UNCHANGED crashes
    BY <1>4 DEF CommitStep, PushRemoves, PushAdds, CommitName, PushAll, SetLatest,
         SaveNSRecords, StartVMRecords, SaveVMRecord, FinishCommit, CommitUnchanged
  <2>2. QED BY <1>0, <1>4, <2>1, CommitSafe, CommitRuns, KeepExact
<1>5. CASE Crash
  BY <1>5 DEF Crash, ExactInv
<1>6. CASE UNCHANGED vars
  <2>1. SameView
    BY <1>6, SameRecords DEF vars, memory, redis, RecordVars
  <2>2. QED BY <1>6, <2>1, KeepExact DEF vars, memory
<1>7. QED BY <1>1, <1>2, <1>3, <1>4, <1>5, <1>6, CallersAssumption DEF Next, Calls

LEMMA AlwaysExact == MaxCrashes = 0 => (Spec => [](SafeInv /\ ExactInv))
<1> SUFFICES ASSUME MaxCrashes = 0 PROVE Spec => [](SafeInv /\ ExactInv)
  OBVIOUS
<1>1. SafeInv /\ ExactInv /\ [Next]_vars => ExactInv'
  BY ExactStep
<1>2. QED BY <1>1, SafeInit, SafeStep, ExactInit, PTL DEF Spec

(* While nothing crashes, what is pending in the zones of a VM's own       *)
(* records is what it is recorded to have (update-stream.js _write and     *)
(* closeSerial): for all zones, VMs, names, clocks and serial ages.        *)
THEOREM OwnRecordsAlwaysExact == MaxCrashes = 0 => (Spec => []OwnRecordsExact)
<1>1. ExactInv => OwnRecordsExact
  BY DEF ExactInv
<1>2. QED BY <1>1, AlwaysExact, PTL

(* "Only one write or commit operation can be running at a time, or else   *)
(* we can commit a partly-generated set of records": no serial is          *)
(* committed with part of what a VM was given.                             *)
THEOREM CommitsAreWhole == MaxCrashes = 0 => (Spec => []NoPartialCommit)
<1>1. SafeInv /\ ExactInv => NoPartialCommit
  <2> SUFFICES ASSUME SafeInv, ExactInv, job.stage = "vms", NEW v \in VMs
               PROVE  content \cap Owned(v) = Recorded(v) \cap Owned(v)
    BY DEF NoPartialCommit
  <2>1. Pending = content
    BY Committed
  <2>2. write.stage # "set"
    BY DEF SafeInv, Lock
  <2>3. QED BY <2>1, <2>2 DEF ExactInv, OwnRecordsExact
<1>2. QED BY <1>1, AlwaysExact, PTL

(* While nothing crashes, every record that is or will be in DNS is one    *)
(* some VM is recorded to have: the write that takes it away from that VM  *)
(* finds it, under names that several VMs fight for as well.               *)
THEOREM RecordsAreRemembered == MaxCrashes = 0 => (Spec => []NoOrphans)
<1>1. ExactInv => NoOrphans
  BY DEF ExactInv
<1>2. QED BY <1>1, AlwaysExact, PTL

-----------------------------------------------------------------------------
(* Whatever crashes.                                                       *)

LEMMA KeepWritten ==
    ASSUME WrittenIsPending, Pending' = Pending,
           \A v \in VMs : vmsToCommit'[v] \in {Undef, vmsToCommit[v]},
           UNCHANGED write \/ write.stage # "set"
    PROVE  WrittenIsPending'
  BY DEF WrittenIsPending, Owned

(* v sets W: of its names, only what is in W is left, and all of that.     *)
LEMMA SetWritten ==
    ASSUME List \subseteq Records, NEW v \in VMs, NEW W \in Given(v),
           NEW P, P = (List \ Surplus(W)) \cup Missing(W)
    PROVE  /\ W \cap Owned(v) \subseteq P
           /\ \A r \in P, w \in W \cap Owned(v) :
                SameName(r, w) /\ InSrc(r, w) => r \in W
<1>1. \A x \in W : x \in Records /\ x.src \in {v, NoSrc}
  BY GivenOf
<1>2. ASSUME NEW w \in W, w \in Owned(v) PROVE w \in P
  <2>1. CASE w \in List
    BY <1>2, <2>1 DEF Surplus, RecMatch, SameName
  <2>2. CASE w \notin List
    <3> SUFFICES ASSUME NEW r \in List, RecMatch(r, w), InSrc(r, w) PROVE FALSE
      BY <1>2 DEF Missing
    <3>1. r \in Records /\ w \in Records
      BY <1>1
    <3>2. r.src = NoSrc <=> w.src = NoSrc
      BY <3>1, RecordsAssumption DEF RecMatch
    <3>3. r.src = w.src
      BY <3>2 DEF InSrc
    <3>4. QED BY <2>2, <3>1, <3>3, SameRecord
  <2>3. QED BY <2>1, <2>2
<1>3. ASSUME NEW r \in P, NEW w \in W, w \in Owned(v), SameName(r, w), InSrc(r, w)
      PROVE  r \in W
  <2>1. CASE r \in List /\ r \notin Surplus(W)
    <3>1. PICK x \in W : RecMatch(r, x)
      BY <1>3, <2>1 DEF Surplus
    <3>2. SameName(r, x)
      BY <3>1 DEF RecMatch
    <3>3. /\ r.src = NoSrc <=> w.src = NoSrc
          /\ r.src = NoSrc <=> x.src = NoSrc
      BY <1>1, <1>3, <2>1, <3>2, RecordsAssumption
    <3>4. r.src = x.src
      BY <1>1, <1>3, <3>3 DEF InSrc
    <3>5. QED BY <1>1, <2>1, <3>1, <3>4, SameRecord
  <2>2. CASE r \in Missing(W)
    BY <2>2 DEF Missing
  <2>3. QED BY <1>3, <2>1, <2>2
<1>4. QED BY <1>2, <1>3

(* What another VM sets is never a record of a name that u owns.           *)
LEMMA SetApart ==
    ASSUME NEW v \in VMs, NEW u \in VMs, u # v, NEW W \in Given(v),
           NEW r \in W, NEW w \in Owned(u), SameName(r, w)
    PROVE  ~ InSrc(r, w)
<1>1. W \in Wants[v] /\ SameName(w, r)
  BY DEF Given, SameName
<1>2. ~ InSrc(w, r)
  BY <1>1, OtherSrc
<1>3. r \in Records /\ w \in Records
  BY GivenOf DEF Owned
<1>4. r.src = NoSrc <=> w.src = NoSrc
  BY <1>3, RecordsAssumption
<1>5. QED BY <1>2, <1>4 DEF InSrc

LEMMA RemoveWritten ==
    ASSUME SafeInv, WrittenIsPending, TypeOK', RemoveEntries,
           NEW v \in VMs, v = write.vm,
           NEW E, E = Dropped(write.old, write.want)
    PROVE  WrittenIsPending'
<1>1. write.stage = "remove" /\ write.old \in Given(v) /\ E \subseteq write.old
  BY DEF RemoveEntries, SafeInv, OnlyGiven, Dropped
<1>2. /\ Pending' = Pending \ Matching(E) /\ vmsToCommit' = vmsToCommit
      /\ write' = [write EXCEPT !.stage = "set"]
  BY RemoveStep
<1>3. write'.stage = "set" /\ write'.vm = v
  BY <1>2 DEF SafeInv, TypeOK, Writes
<1>4. SUFFICES ASSUME NEW u \in VMs, u # v, vmsToCommit[u] # Undef
      PROVE  /\ vmsToCommit[u] \cap Owned(u) \subseteq Pending'
             /\ \A r \in Pending', w \in vmsToCommit[u] \cap Owned(u) :
                  SameName(r, w) /\ InSrc(r, w) => r \in vmsToCommit[u]
  BY <1>2, <1>3 DEF WrittenIsPending, Owned
<1>5. Matching(E) \cap Owned(u) = {}
  BY <1>1, <1>4, MatchingOther
<1>6. QED BY <1>1, <1>2, <1>4, <1>5 DEF WrittenIsPending

LEMMA SetStepWritten ==
    ASSUME SafeInv, WrittenIsPending, TypeOK', SetEntries,
           NEW v \in VMs, v = write.vm, NEW W, W = write.want
    PROVE  WrittenIsPending'
<1>1. /\ write.stage = "set"
      /\ Pending' = (List \ Surplus(W)) \cup Missing(W)
      /\ vmsToCommit'[v] = W
      /\ \A u \in VMs \ {v} : vmsToCommit'[u] = vmsToCommit[u]
  BY SetStep
<1>2. Pending = List /\ List \subseteq Records /\ W \in Given(v)
  BY <1>1, WriteRuns DEF SafeInv, OnlyGiven
<1>3. /\ W \cap Owned(v) \subseteq Pending'
      /\ \A r \in Pending', w \in W \cap Owned(v) :
           SameName(r, w) /\ InSrc(r, w) => r \in W
  BY <1>1, <1>2, SetWritten
<1>4. ASSUME NEW u \in VMs, u # v, vmsToCommit[u] # Undef
      PROVE  /\ vmsToCommit[u] \cap Owned(u) \subseteq Pending'
             /\ \A r \in Pending', w \in vmsToCommit[u] \cap Owned(u) :
                  SameName(r, w) /\ InSrc(r, w) => r \in vmsToCommit[u]
  <2>1. Surplus(W) \cap Owned(u) = {}
    BY <1>2, <1>4, SurplusOther
  <2>2. /\ vmsToCommit[u] \cap Owned(u) \subseteq Pending
        /\ \A r \in Pending, w \in vmsToCommit[u] \cap Owned(u) :
             SameName(r, w) /\ InSrc(r, w) => r \in vmsToCommit[u]
    BY <1>4 DEF WrittenIsPending
  <2>3. \A r \in Missing(W), w \in Owned(u) : SameName(r, w) => ~InSrc(r, w)
    BY <1>2, <1>4, SetApart DEF Missing
  <2>4. QED BY <1>1, <1>2, <2>1, <2>2, <2>3
<1>5. QED BY <1>1, <1>3, <1>4 DEF WrittenIsPending, Owned

LEMMA WrittenStep ==
    ASSUME SafeInv, WrittenIsPending, [Next]_vars
    PROVE  WrittenIsPending'
<1>0. TypeOK'
  BY StepType DEF SafeInv
<1>1. CASE Calls
  BY <1>0, <1>1, CallerStep, CallsWrite, KeepWritten DEF SameView
<1>2. ASSUME NEW v \in VMs, NEW W \in Wants[v], Write(v, W) PROVE WrittenIsPending'
  <2>1. SameView
    BY <1>0, <1>2, WriteBegins
  <2>2. UNCHANGED vmsToCommit /\ write.stage # "set"
    BY <1>2 DEF Write
  <2>3. QED BY <2>1, <2>2, KeepWritten DEF SameView
<1>3. CASE WriteStep
  <2>1. write.vm \in VMs
    BY DEF SafeInv, TypeOK, Writes
  <2>2. ASSUME FetchLastRecs PROVE WrittenIsPending'
    <3>1. UNCHANGED vmsToCommit /\ write.stage # "set"
      BY <2>2 DEF FetchLastRecs
    <3>2. QED BY <1>0, <2>2, <3>1, FetchStep, KeepWritten DEF SameView
  <2>3. RemoveEntries => WrittenIsPending'
    BY <1>0, <2>1, RemoveWritten
  <2>4. SetEntries => WrittenIsPending'
    BY <1>0, <2>1, SetStepWritten
  <2>5. QED BY <1>3, <2>2, <2>3, <2>4 DEF WriteStep
<1>4. CASE CommitStep
  <2>1. \A v \in VMs : vmsToCommit'[v] \in {Undef, vmsToCommit[v]}
    BY <1>4 DEF CommitStep, PushRemoves, PushAdds, CommitName, PushAll, SetLatest,
         SaveNSRecords, StartVMRecords, SaveVMRecord, FinishCommit, CommitUnchanged
  <2>2. QED BY <1>0, <1>4, <2>1, CommitSafe, CommitRuns, KeepWritten DEF SameView
<1>5. CASE Crash
  BY <1>5 DEF Crash, WrittenIsPending
<1>6. CASE UNCHANGED vars
  <2>1. Pending' = Pending
    BY <1>6 DEF vars, memory, redis, Pending
  <2>2. QED BY <1>6, <2>1, KeepWritten DEF vars, memory
<1>7. QED BY <1>1, <1>2, <1>3, <1>4, <1>5, <1>6, CallersAssumption DEF Next, Calls

(* What a write has put into the builders stays pending until the commit   *)
(* takes it, and nothing else under the VM's own names does, whatever the  *)
(* crashes before it left in redis.                                        *)
THEOREM WrittenStaysPending == Spec => []WrittenIsPending
<1>1. Init => WrittenIsPending
  BY DEF Init, WrittenIsPending
<1>2. SafeInv /\ WrittenIsPending /\ [Next]_vars => WrittenIsPending'
  BY WrittenStep
<1>3. QED BY <1>1, <1>2, SafeInit, SafeStep, PTL DEF Spec

=============================================================================
