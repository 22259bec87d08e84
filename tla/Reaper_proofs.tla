---------------------------- MODULE Reaper_proofs ----------------------------
(***************************************************************************)
(* Proofs about Reaper, for all VMs, lives and bounds: its types, and why  *)
(* a VM that has records keeps its key, and with it the reaper's eye.      *)
(***************************************************************************)
EXTENDS Reaper, TLAPS

LEMMA AVMInVMs == AVM \in VMs
  BY ReaperAssumption DEF AVM

LEMMA InitType == Init => TypeOK
<1> SUFFICES ASSUME Init PROVE TypeOK
  OBVIOUS
<1>1. KeyTypeOK
  <2>1. {m[1] : m \in Moves} \subseteq States
    BY ReaperAssumption
  <2>2. vmapi \in [VMs -> States]
    BY <2>1 DEF Init
  <2>3. QED BY <2>2 DEF Init, KeyTypeOK, RecsValues
<1>2. FsmTypeOK
  BY ReaperAssumption, AVMInVMs DEF Init, FsmTypeOK, Checking, Idle, RecsValues
<1>3. QueueTypeOK
  BY DEF Init, QueueTypeOK
<1>4. StreamTypeOK
  BY AVMInVMs DEF Init, StreamTypeOK, NoWrite, NoJob, RecsValues
<1>5. bounds \in (0..MaxPushes) \X (0..MaxFaults)
  BY ReaperAssumption DEF Init, bounds
<1>6. QED BY <1>1, <1>2, <1>3, <1>4, <1>5 DEF TypeOK

(* The beginning of a write: of the types, only those of last_visit and    *)
(* the write are at stake.                                                 *)
LEMMA BeginTypes ==
    ASSUME TypeOK, NEW obj \in Objects, Begin(obj)
    PROVE  /\ visit' \in [VMs -> {"none", "fresh", "old"}]
           /\ write' \in [stage : {"none", "set"}, vm : VMs, want : BOOLEAN,
                          old : RecsValues]
           /\ lost' \subseteq VMs
<1>1. obj.vm \in VMs
  BY DEF Objects
<1>2. Recorded(obj.vm) \in RecsValues
  BY <1>1 DEF TypeOK, KeyTypeOK, StreamTypeOK, Recorded
<1>3. PICK want \in BOOLEAN :
        write' = [stage |-> "set", vm |-> obj.vm, want |-> want,
                  old |-> Recorded(obj.vm)]
  BY DEF Begin, Wants
<1>4. visit' = [visit EXCEPT ![obj.vm] = "fresh"]
  BY DEF Begin
<1>5. lost' \subseteq VMs
  BY DEF Begin, TypeOK, KeyTypeOK
<1>6. QED BY <1>1, <1>2, <1>3, <1>4, <1>5 DEF TypeOK, KeyTypeOK

(* The queues lose their first object, or get one more.                    *)
LEMMA QueueTypes ==
    ASSUME TypeOK
    PROVE  /\ reaperQ # <<>> => /\ Head(reaperQ) \in Objects
                                /\ Tail(reaperQ) \in Seq(Objects)
           /\ otherQ # <<>> => /\ Head(otherQ) \in Objects
                               /\ Tail(otherQ) \in Seq(Objects)
           /\ \A x \in Objects : /\ Append(reaperQ, x) \in Seq(Objects)
                                 /\ Append(otherQ, x) \in Seq(Objects)
  BY DEF TypeOK, QueueTypeOK

LEMMA TypeStep ==
    ASSUME TypeOK, [Next]_vars
    PROVE  TypeOK'
<1>1. CASE \E v \in VMs : Move(v)
  BY <1>1 DEF Move, TypeOK, KeyTypeOK, FsmTypeOK, QueueTypeOK, StreamTypeOK,
              key, pipeline, stream, States
<1>2. CASE \E v \in VMs : PushOther(v)
  <2>1. PICK v \in VMs : PushOther(v)
    BY <1>2
  <2>2. Object(v) \in Objects
    BY DEF Object, Objects, TypeOK, KeyTypeOK
  <2>3. QueueTypeOK'
    BY <2>1, <2>2, QueueTypes DEF PushOther, TypeOK, QueueTypeOK
  <2>4. /\ UNCHANGED <<vmapi, content, key, fsm, stream>>
        /\ (bounds \in (0..MaxPushes) \X (0..MaxFaults))'
    BY <2>1, ReaperAssumption DEF PushOther, TypeOK, bounds
  <2>5. QED BY <2>3, <2>4 DEF TypeOK, KeyTypeOK, FsmTypeOK, StreamTypeOK, key,
      stream
<1>3. CASE \E v \in VMs : Age(v)
  BY <1>3 DEF Age, TypeOK, KeyTypeOK, FsmTypeOK, QueueTypeOK, StreamTypeOK,
              pipeline, stream
<1>4. CASE Drop
  <2>1. QueueTypeOK'
    BY <1>4, QueueTypes DEF Drop, TypeOK, QueueTypeOK
  <2>2. /\ UNCHANGED <<vmapi, content, key, fsm, stream>>
        /\ (bounds \in (0..MaxPushes) \X (0..MaxFaults))'
    BY <1>4, ReaperAssumption DEF Drop, Fault, TypeOK, bounds
  <2>3. QED BY <2>1, <2>2 DEF TypeOK, KeyTypeOK, FsmTypeOK, StreamTypeOK, key,
      stream
<1>5. CASE Wake
  BY <1>5 DEF Wake, TypeOK, KeyTypeOK, FsmTypeOK, QueueTypeOK, StreamTypeOK,
              World, key, pipeline, stream, Checking
<1>6. CASE \E v \in VMs : ScanKey(v)
  <2>1. PICK v \in VMs : ScanKey(v)
    BY <1>6
  <2>2. Append(fsm.remaining, v) \in Seq(VMs) /\ fsm.scanned \cup {v} \in
      SUBSET VMs
    BY DEF TypeOK, FsmTypeOK
  <2>3. FsmTypeOK'
    BY <2>1, <2>2 DEF ScanKey, TypeOK, FsmTypeOK, Checking
  <2>4. UNCHANGED <<vmapi, content, key, pipeline, stream, bounds>>
    BY <1>6 DEF ScanKey, World
  <2>5. QED BY <2>3, <2>4 DEF TypeOK, KeyTypeOK, QueueTypeOK, StreamTypeOK,
      key, pipeline, stream, bounds
<1>7. CASE ScanDone
  BY <1>7 DEF ScanDone, To, TypeOK, KeyTypeOK, FsmTypeOK, QueueTypeOK,
              StreamTypeOK, World, key, pipeline, stream, Checking
<1>8. CASE TakeNext
  <2>1. Head(fsm.remaining) \in VMs /\ Tail(fsm.remaining) \in Seq(VMs)
    BY <1>8 DEF TakeNext, TypeOK, FsmTypeOK
  <2>2. Retries \in 0..Retries /\ Retries > 0
    BY ReaperAssumption
  <2>3. FsmTypeOK'
    BY <1>8, <2>1, <2>2 DEF TakeNext, TypeOK, FsmTypeOK, Checking
  <2>4. UNCHANGED <<vmapi, content, key, pipeline, stream, bounds>>
    BY <1>8 DEF TakeNext, World
  <2>5. QED BY <2>3, <2>4 DEF TypeOK, KeyTypeOK, QueueTypeOK, StreamTypeOK,
      key, pipeline, stream, bounds
<1>9. CASE RoundDone
  BY <1>9 DEF RoundDone, To, TypeOK, KeyTypeOK, FsmTypeOK, QueueTypeOK,
              StreamTypeOK, World, key, pipeline, stream, Checking
<1>10. CASE CheckLastVisited
  BY <1>10 DEF CheckLastVisited, To, TypeOK, KeyTypeOK, FsmTypeOK,
               QueueTypeOK, StreamTypeOK, World, key, pipeline, stream,
               Checking
<1>11. CASE CheckReaped
  BY <1>11 DEF CheckReaped, To, TypeOK, KeyTypeOK, FsmTypeOK, QueueTypeOK,
               StreamTypeOK, World, key, pipeline, stream, Checking
<1>12. CASE ReadLastRecs
  <2>1. fsm' = [fsm EXCEPT !.stage = "forget", !.val = recs[fsm.vm]]
    BY <1>12 DEF ReadLastRecs
  <2>2. fsm.retries > 0 /\ recs[fsm.vm] \in RecsValues
    BY <1>12 DEF ReadLastRecs, TypeOK, KeyTypeOK, FsmTypeOK, Checking
  <2>3. FsmTypeOK'
    BY <2>1, <2>2 DEF TypeOK, FsmTypeOK, Checking
  <2>4. UNCHANGED <<vmapi, content, key, pipeline, stream, bounds>>
    BY <1>12 DEF ReadLastRecs, World
  <2>5. QED BY <2>3, <2>4 DEF TypeOK, KeyTypeOK, QueueTypeOK, StreamTypeOK,
      key, pipeline, stream, bounds
<1>13. CASE Forget
  <2>1. KeyTypeOK'
    <3>1. vmapi' = vmapi /\ content' = content /\ fsm.vm \in VMs
      BY <1>13 DEF Forget, World, TypeOK, FsmTypeOK
    <3>2. lost' \subseteq VMs
      BY <1>13, <3>1 DEF Forget, Delete, TypeOK, KeyTypeOK, key
    <3>3. /\ visit' \in [VMs -> {"none", "fresh", "old"}]
          /\ recs' \in [VMs -> RecsValues] /\ reaped' \in [VMs -> BOOLEAN]
      BY <1>13, <3>1 DEF Forget, Delete, TypeOK, KeyTypeOK, key, RecsValues
    <3>4. QED BY <3>1, <3>2, <3>3 DEF TypeOK, KeyTypeOK
  <2>2. FsmTypeOK'
    BY <1>13 DEF Forget, To, TypeOK, FsmTypeOK, Checking
  <2>3. UNCHANGED <<pipeline, stream, bounds>>
    BY <1>13 DEF Forget, World
  <2>4. QED BY <2>1, <2>2, <2>3 DEF TypeOK, QueueTypeOK, StreamTypeOK,
      pipeline, stream, bounds
<1>14. CASE Fetch
  <2>1. vmapi[fsm.vm] \in States /\ fsm.retries > 0
    BY <1>14 DEF Fetch, TypeOK, KeyTypeOK, FsmTypeOK, Checking
  <2>2. FsmTypeOK'
    BY <1>14, <2>1 DEF Fetch, TypeOK, FsmTypeOK, Checking
  <2>3. UNCHANGED <<vmapi, content, key, pipeline, stream, bounds>>
    BY <1>14 DEF Fetch, World
  <2>4. QED BY <2>2, <2>3 DEF TypeOK, KeyTypeOK, QueueTypeOK, StreamTypeOK,
      key, pipeline, stream, bounds
<1>15. CASE Push
  <2>1. [vm |-> fsm.vm, state |-> fsm.val] \in Objects
    BY <1>15 DEF Push, TypeOK, FsmTypeOK, Objects
  <2>2. QueueTypeOK'
    BY <1>15, <2>1, QueueTypes DEF Push, TypeOK, QueueTypeOK
  <2>3. KeyTypeOK'
    BY <1>15 DEF Push, TypeOK, KeyTypeOK, FsmTypeOK
  <2>4. FsmTypeOK'
    BY <1>15 DEF Push, To, TypeOK, FsmTypeOK, Checking
  <2>5. UNCHANGED <<stream, bounds>>
    BY <1>15 DEF Push
  <2>6. QED BY <2>2, <2>3, <2>4, <2>5 DEF TypeOK, StreamTypeOK, stream, bounds
<1>16. CASE Awake
  BY <1>16 DEF Awake, To, TypeOK, KeyTypeOK, FsmTypeOK, QueueTypeOK,
               StreamTypeOK, World, key, pipeline, stream, Checking
<1>17. CASE ListFails
  <2>1. FsmTypeOK'
    BY <1>17 DEF ListFails, TypeOK, FsmTypeOK, Checking
  <2>2. /\ UNCHANGED <<vmapi, content, key, pipeline, stream>>
        /\ (bounds \in (0..MaxPushes) \X (0..MaxFaults))'
    BY <1>17, ReaperAssumption DEF ListFails, Fault, TypeOK, bounds
  <2>3. QED BY <2>1, <2>2 DEF TypeOK, KeyTypeOK, QueueTypeOK, StreamTypeOK,
      key, pipeline, stream
<1>18. CASE CheckFails
  <2>1. /\ fsm.retries \in 0..Retries /\ fsm.retries > 0
        /\ fsm.retries - 1 \in 0..Retries
        /\ fsm.retries > 1 => fsm.retries - 1 > 0
    BY <1>18, ReaperAssumption DEF CheckFails, TypeOK, FsmTypeOK
  <2>2. FsmTypeOK'
    <3> DEFINE r == fsm.retries - 1
               stage == IF fsm.retries > 1 THEN "visit" ELSE "next"
    <3>1. fsm' = [fsm EXCEPT !.retries = r, !.stage = stage]
      BY <1>18 DEF CheckFails
    <3>2. r \in 0..Retries
      BY <2>1
    <3>3. (stage = "visit" /\ r > 0) \/ stage = "next"
      BY <2>1
    <3> HIDE DEF r, stage
    <3>4. QED BY <3>1, <3>2, <3>3 DEF TypeOK, FsmTypeOK, Checking
  <2>3. /\ UNCHANGED <<vmapi, content, key, pipeline, stream>>
        /\ (bounds \in (0..MaxPushes) \X (0..MaxFaults))'
    BY <1>18, ReaperAssumption DEF CheckFails, Fault, TypeOK, bounds
  <2>4. QED BY <2>2, <2>3 DEF TypeOK, KeyTypeOK, QueueTypeOK, StreamTypeOK,
      key, pipeline, stream
<1>19. CASE BeginWrite
  <2>1. PICK obj \in Objects : Begin(obj)
    BY <1>19, QueueTypes DEF BeginWrite
  <2>2. QueueTypeOK'
    BY <1>19, QueueTypes DEF BeginWrite, TypeOK, QueueTypeOK
  <2>3. UNCHANGED <<vmapi, content, recs, reaped, fsm, pending, change, open,
      job, bounds>>
    BY <1>19 DEF BeginWrite
  <2>4. KeyTypeOK'
    BY <2>1, <2>3, BeginTypes DEF TypeOK, KeyTypeOK
  <2>5. StreamTypeOK'
    BY <2>1, <2>3, BeginTypes DEF TypeOK, StreamTypeOK
  <2>6. QED BY <2>2, <2>3, <2>4, <2>5 DEF TypeOK, FsmTypeOK, bounds
<1>20. CASE EndWrite
  <2>1. StreamTypeOK'
    <3>1. write' \in [stage : {"none", "set"}, vm : VMs, want : BOOLEAN,
                      old : RecsValues]
      BY <1>20, AVMInVMs DEF EndWrite, NoWrite, RecsValues
    <3>2. pending' \in [VMs -> RecsValues]
      BY <1>20 DEF EndWrite, TypeOK, StreamTypeOK, RecsValues
    <3>3. change' \in [VMs -> {"keep", "add", "remove"}]
      BY <1>20 DEF EndWrite, TypeOK, StreamTypeOK
    <3>4. open' \in BOOLEAN /\ job' = job
      BY <1>20 DEF EndWrite
    <3>5. QED BY <3>1, <3>2, <3>3, <3>4 DEF TypeOK, StreamTypeOK
  <2>2. UNCHANGED <<vmapi, content, key, fsm, pipeline, bounds>>
    BY <1>20 DEF EndWrite
  <2>3. QED BY <2>1, <2>2 DEF TypeOK, KeyTypeOK, FsmTypeOK, QueueTypeOK, key,
                              pipeline, bounds
<1>21. CASE StartCommit
  BY <1>21 DEF StartCommit, Unlocked, NoJob, TypeOK, KeyTypeOK, FsmTypeOK,
               QueueTypeOK, StreamTypeOK, key, pipeline, RecsValues
<1>22. CASE CommitZones
  <2>1. KeyTypeOK'
    BY <1>22 DEF CommitZones, TypeOK, KeyTypeOK, key
  <2>2. StreamTypeOK'
    BY <1>22 DEF CommitZones, NoJob, TypeOK, StreamTypeOK, RecsValues
  <2>3. UNCHANGED <<fsm, pipeline, bounds>>
    BY <1>22 DEF CommitZones, bounds
  <2>4. QED BY <2>1, <2>2, <2>3 DEF TypeOK, FsmTypeOK, QueueTypeOK, pipeline,
      bounds
<1>23. CASE SaveVMRecords
  BY <1>23 DEF SaveVMRecords, NoJob, TypeOK, KeyTypeOK, FsmTypeOK,
               QueueTypeOK, StreamTypeOK, pipeline, RecsValues
<1>24. CASE Crash
  <2>1. FsmTypeOK' /\ QueueTypeOK'
    BY <1>24, ReaperAssumption, AVMInVMs
       DEF Crash, Idle, FsmTypeOK, Checking, RecsValues, QueueTypeOK
  <2>2. StreamTypeOK'
    BY <1>24, AVMInVMs DEF Crash, NoWrite, NoJob, StreamTypeOK, RecsValues
  <2>3. /\ UNCHANGED <<vmapi, content, key>>
        /\ (bounds \in (0..MaxPushes) \X (0..MaxFaults))'
    BY <1>24, ReaperAssumption DEF Crash, Fault, TypeOK, bounds
  <2>4. QED BY <2>1, <2>2, <2>3 DEF TypeOK, KeyTypeOK, key
<1>25. CASE UNCHANGED vars
  BY <1>25 DEF TypeOK, KeyTypeOK, FsmTypeOK, QueueTypeOK, StreamTypeOK, vars,
               key, pipeline, stream
<1>26. CASE LastRecsFails
  <2>1. FsmTypeOK'
    BY <1>26 DEF LastRecsFails, TypeOK, FsmTypeOK, Checking
  <2>2. /\ UNCHANGED <<vmapi, content, key, pipeline, stream>>
        /\ (bounds \in (0..MaxPushes) \X (0..MaxFaults))'
    BY <1>26, ReaperAssumption DEF LastRecsFails, Fault, TypeOK, bounds
  <2>3. QED BY <2>1, <2>2 DEF TypeOK, KeyTypeOK, QueueTypeOK, StreamTypeOK,
      key, pipeline, stream
<1>27. QED BY <1>1, <1>2, <1>3, <1>4, <1>5, <1>6, <1>7, <1>8, <1>9, <1>10, <1>11,
   <1>12, <1>13, <1>14, <1>15, <1>16, <1>17, <1>18, <1>19, <1>20, <1>21,
   <1>22, <1>23, <1>24, <1>25, <1>26 DEF Next, ReaperStep, StreamStep

(* TypeOK of the runs: what the reaper, the pipeline and the update stream *)
(* hold is always what lib/reaper-stream.js can make of it; a VM that is   *)
(* checked has retries left.                                               *)
THEOREM TypeCorrect == Spec => []TypeOK
<1>1. Init => TypeOK
  BY InitType
<1>2. TypeOK /\ [Next]_vars => TypeOK'
  BY TypeStep
<1>3. QED BY <1>1, <1>2, PTL DEF Spec

-----------------------------------------------------------------------------
LEMMA InitKey == Init => KeyInv
  BY DEF Init, KeyInv, NeverSkipped, RecordsAreRecent, SawTheOld, Idle,
         NoWrite, NoJob, Forgetting

LEMMA KeyStep ==
    ASSUME TypeOK, KeyInv, [Next]_vars
    PROVE  KeyInv'
<1>1. CASE \E v \in VMs : Move(v)
  BY <1>1 DEF Move, KeyInv, NeverSkipped, RecordsAreRecent, SawTheOld, key,
              stream
<1>2. CASE \E v \in VMs : PushOther(v)
  BY <1>2 DEF PushOther, KeyInv, NeverSkipped, RecordsAreRecent, SawTheOld,
              key, stream
<1>3. CASE \E v \in VMs : Age(v)
  BY <1>3 DEF Age, UnderWay, KeyInv, NeverSkipped, RecordsAreRecent,
              SawTheOld, stream
<1>4. CASE Drop
  BY <1>4 DEF Drop, KeyInv, NeverSkipped, RecordsAreRecent, SawTheOld, key,
              stream
<1>5. CASE Wake
  BY <1>5 DEF Wake, KeyInv, NeverSkipped, RecordsAreRecent, SawTheOld,
              Forgetting, World, key, stream
<1>6. CASE \E v \in VMs : ScanKey(v)
  BY <1>6 DEF ScanKey, KeyInv, NeverSkipped, RecordsAreRecent, SawTheOld,
              World, key, stream
<1>7. CASE ScanDone
  BY <1>7 DEF ScanDone, To, KeyInv, NeverSkipped, RecordsAreRecent,
              SawTheOld, Forgetting, World, key, stream
<1>8. CASE TakeNext
  BY <1>8 DEF TakeNext, KeyInv, NeverSkipped, RecordsAreRecent, SawTheOld,
              Forgetting, World, key, stream
<1>9. CASE RoundDone
  BY <1>9 DEF RoundDone, To, KeyInv, NeverSkipped, RecordsAreRecent,
              SawTheOld, Forgetting, World, key, stream
<1>10. CASE CheckLastVisited
  BY <1>10 DEF CheckLastVisited, To, KeyInv, NeverSkipped, RecordsAreRecent,
               SawTheOld, Forgetting, World, key, stream
<1>11. CASE CheckReaped
  BY <1>11 DEF CheckReaped, To, KeyInv, NeverSkipped, RecordsAreRecent,
               SawTheOld, Forgetting, World, key, stream
<1>12. CASE ReadLastRecs
  BY <1>12 DEF ReadLastRecs, TypeOK, FsmTypeOK, KeyInv, NeverSkipped,
               RecordsAreRecent, SawTheOld, Forgetting, World, key, stream
<1>13. CASE Forget
  <2>1. fsm'.stage \notin Forgetting
    BY <1>13 DEF Forget, To, TypeOK, FsmTypeOK, Forgetting
  <2>2. CASE fsm.val = "some"
    BY <1>13, <2>1, <2>2 DEF Forget, KeyInv, NeverSkipped, RecordsAreRecent,
                            SawTheOld, World, key, stream
  <2>3. CASE fsm.val # "some"
    <3>1. /\ visit' = [visit EXCEPT ![fsm.vm] = "none"]
          /\ recs' = [recs EXCEPT ![fsm.vm] = "none"]
          /\ lost' = IF Wrong THEN lost \cup {fsm.vm} ELSE lost
          /\ UNCHANGED stream /\ fsm.stage = "forget" /\ fsm.vm \in VMs
      BY <1>13, <2>3 DEF Forget, Delete, World, TypeOK, FsmTypeOK
    <3>2. NeverSkipped'
      BY <3>1 DEF KeyInv, NeverSkipped, TypeOK, KeyTypeOK
    <3>3. visit[fsm.vm] = "fresh" => fsm.vm \in lost'
      BY <3>1 DEF Wrong
    <3>4. visit' \in [VMs -> {"none", "fresh", "old"}] /\ lost \subseteq lost'
      BY <3>1 DEF TypeOK, KeyTypeOK
    <3>5. \A v \in VMs : v \in lost' => visit'[v] = "none"
      BY <3>1 DEF KeyInv, RecordsAreRecent, TypeOK, KeyTypeOK
    <3>6. RecordsAreRecent'
      BY <3>1, <3>3, <3>4, <3>5
         DEF KeyInv, RecordsAreRecent, TypeOK, KeyTypeOK, stream
    <3>7. QED BY <2>1, <3>2, <3>6 DEF KeyInv, SawTheOld
  <2>4. QED BY <2>2, <2>3
<1>14. CASE Fetch
  BY <1>14 DEF Fetch, KeyInv, NeverSkipped, RecordsAreRecent, SawTheOld,
               Forgetting, World, key, stream
<1>15. CASE Push
  BY <1>15 DEF Push, To, KeyInv, NeverSkipped, RecordsAreRecent, SawTheOld,
               Forgetting, stream
<1>16. CASE Awake
  BY <1>16 DEF Awake, To, KeyInv, NeverSkipped, RecordsAreRecent, SawTheOld,
               Forgetting, World, key, stream
<1>17. CASE ListFails
  BY <1>17 DEF ListFails, KeyInv, NeverSkipped, RecordsAreRecent, SawTheOld,
               key, stream
<1>18. CASE CheckFails
  BY <1>18 DEF CheckFails, KeyInv, NeverSkipped, RecordsAreRecent, SawTheOld,
               Forgetting, key, stream
<1>19. CASE BeginWrite
  <2>1. PICK obj \in Objects : Begin(obj)
    BY <1>19, QueueTypes DEF BeginWrite
  <2>2. obj.vm \in VMs
    BY DEF Objects
  <2>3. UNCHANGED <<recs, fsm, pending, open, job>>
    BY <1>19 DEF BeginWrite
  <2>4. /\ visit' = [visit EXCEPT ![obj.vm] = "fresh"] /\ write'.vm = obj.vm
        /\ write.stage = "none" /\ lost' = lost \ {obj.vm}
    BY <2>1 DEF Begin, Unlocked
  <2>5. QED BY <2>2, <2>3, <2>4
        DEF TypeOK, KeyTypeOK, StreamTypeOK, KeyInv, NeverSkipped,
            RecordsAreRecent, SawTheOld, Forgetting
<1>20. CASE EndWrite
  BY <1>20 DEF EndWrite, NoWrite, TypeOK, StreamTypeOK, KeyInv, NeverSkipped,
               RecordsAreRecent, SawTheOld, key
<1>21. CASE StartCommit
  BY <1>21 DEF StartCommit, NoJob, KeyInv, NeverSkipped, RecordsAreRecent,
               SawTheOld, key
<1>22. CASE CommitZones
  BY <1>22 DEF CommitZones, NoJob, KeyInv, NeverSkipped, RecordsAreRecent,
               SawTheOld, key
<1>23. CASE SaveVMRecords
  <2>1. /\ recs' = [v \in VMs |-> IF job.recs[v] # "none" THEN job.recs[v] ELSE recs[v]]
        /\ job' = NoJob /\ job.stage = "vms"
        /\ UNCHANGED <<visit, lost, fsm, write, pending, open>>
    BY <1>23 DEF SaveVMRecords
  <2>2. NeverSkipped'
    BY <2>1 DEF KeyInv, NeverSkipped, RecordsAreRecent
  <2>3. RecordsAreRecent'
    BY <2>1 DEF NoJob, KeyInv, RecordsAreRecent
  <2>4. SawTheOld'
    <3>1. fsm.vm \in VMs
      BY DEF TypeOK, FsmTypeOK
    <3>2. visit[fsm.vm] = "old" => job.recs[fsm.vm] # "some"
      BY <3>1 DEF KeyInv, RecordsAreRecent
    <3>3. QED BY <2>1, <3>1, <3>2 DEF KeyInv, SawTheOld
  <2>5. QED BY <2>2, <2>3, <2>4 DEF KeyInv
<1>24. CASE Crash
  BY <1>24 DEF Crash, Idle, NoWrite, NoJob, KeyInv, NeverSkipped,
               RecordsAreRecent, SawTheOld, Forgetting, key
<1>25. CASE UNCHANGED vars
  BY <1>25 DEF KeyInv, NeverSkipped, RecordsAreRecent, SawTheOld, vars, key,
               stream
<1>26. CASE LastRecsFails
  BY <1>26 DEF LastRecsFails, KeyInv, NeverSkipped, RecordsAreRecent,
               SawTheOld, Forgetting, key, stream
<1>27. QED BY <1>1, <1>2, <1>3, <1>4, <1>5, <1>6, <1>7, <1>8, <1>9, <1>10, <1>11,
   <1>12, <1>13, <1>14, <1>15, <1>16, <1>17, <1>18, <1>19, <1>20, <1>21,
   <1>22, <1>23, <1>24, <1>25, <1>26 DEF Next, ReaperStep, StreamStep

(* NeverSkipped: a VM with last_recs has last_visit, whatever is dropped,  *)
(* fails or dies and whenever the del of lib/reaper-stream.js, in          *)
(* state_checkReaped, comes; except for those, named in lost, whose write  *)
(* that del has overtaken.                                                 *)
THEOREM RecordsKeepTheirKey == Spec => []NeverSkipped
<1>1. Init => IInv
  BY InitType, InitKey DEF IInv
<1>2. IInv /\ [Next]_vars => IInv'
  BY TypeStep, KeyStep DEF IInv
<1>3. IInv => NeverSkipped
  BY DEF IInv, KeyInv
<1>4. QED BY <1>1, <1>2, <1>3, PTL DEF Spec

(* Only Forget removes a key, and then there is nothing to lose, or else it *)
(* is known as lost.                                                       *)
LEMMA ForgetsEmpty ==
    ASSUME IInv, [Next]_vars, NEW v \in VMs,
           HasKey(v), ~HasKey(v)'
    PROVE  "some" \notin RecordsOf(v) \/ v \in lost'
<1>1. CASE Forget
  <2>1. v = fsm.vm /\ fsm.val # "some" /\ Delete
    BY <1>1 DEF Forget, Delete, HasKey, IInv, TypeOK, KeyTypeOK, FsmTypeOK, key
  <2>2. CASE Wrong
    BY <2>1, <2>2 DEF Delete
  <2>3. CASE ~Wrong
    <3>1. visit[v] = "old" /\ recs[v] # "some"
      BY <1>1, <2>1, <2>3 DEF Forget, Wrong, Forgetting, IInv, TypeOK,
         KeyTypeOK, KeyInv, SawTheOld
    <3>2. QED BY <3>1 DEF IInv, KeyInv, RecordsAreRecent, RecordsOf
  <2>4. QED BY <2>2, <2>3
<1>2. CASE BeginWrite
  <2>1. PICK obj \in Objects : Begin(obj)
    BY <1>2, QueueTypes DEF BeginWrite, IInv
  <2>2. visit' = [visit EXCEPT ![obj.vm] = "fresh"] /\ UNCHANGED <<recs, reaped>>
    BY <1>2, <2>1 DEF Begin, BeginWrite
  <2>3. QED BY <2>2 DEF HasKey, IInv, TypeOK, KeyTypeOK
<1>3. CASE SaveVMRecords
  BY <1>3 DEF SaveVMRecords, HasKey, IInv
<1>4. CASE Push
  BY <1>4 DEF Push, HasKey, IInv
<1>5. CASE \E u \in VMs : Age(u)
  BY <1>5 DEF Age, HasKey, IInv
<1>6. CASE UNCHANGED key
  BY <1>6 DEF HasKey, key
<1>7. QED
  BY <1>1, <1>2, <1>3, <1>4, <1>5, <1>6
     DEF Next, ReaperStep, StreamStep, Move, PushOther, Drop, Wake, ScanKey,
         ScanDone, TakeNext, RoundDone, CheckLastVisited, CheckReaped,
         ReadLastRecs, LastRecsFails, Fetch, Awake, ListFails, CheckFails, EndWrite,
         StartCommit, CommitZones, Crash, vars

(* LosesNothingElse: a key goes only when its VM has no records and none   *)
(* are on their way, unless a write of the VM has begun since its          *)
(* last_visit was read, or there are records and reading them has given an *)
(* error (lib/reaper-stream.js:234-260).                                   *)
THEOREM KeysGoEmpty == Spec => LosesNothingElse
<1>1. Init => IInv
  BY InitType, InitKey DEF IInv
<1>2. IInv /\ [Next]_vars => IInv'
  BY TypeStep, KeyStep DEF IInv
<1>3. IInv /\ [Next]_vars =>
        [\A v \in VMs : HasKey(v) /\ ~HasKey(v)' =>
            "some" \notin RecordsOf(v) \/ v \in lost']_vars
  BY ForgetsEmpty
<1>4. QED BY <1>1, <1>2, <1>3, PTL DEF Spec, LosesNothingElse

=============================================================================
