----------------------- MODULE UpdateStreamLog_proofs -----------------------
(***************************************************************************)
(* What a commit publishes: the zones are logs as ZoneLog describes them,  *)
(* a serial that is served has its NS records, and who was told that a     *)
(* serial is closed was told the truth.  For any zones, VMs, records and   *)
(* bounds, over crashes but for the last.                                  *)
(*                                                                         *)
(* The log rests on serials that never decrease, and that increase after   *)
(* every commit that began in its tick or later; a serial committed early  *)
(* may come again.                                                         *)
(***************************************************************************)
EXTENDS UpdateStream_proofs, SequenceTheorems

-----------------------------------------------------------------------------
(* The invariants.                                                         *)

Listeners == {turn[i] : i \in 1..Len(turn)} \cup {deferred[i] : i \in 1..Len(deferred)}

(* Who asks for a serial to be closed asks for one that was open.          *)
SerialsDue ==
    /\ timer # 0 => serial # NoSerial
    /\ \A w \in Listeners : w.kind = "close" => w.serial # NoSerial
    /\ job.stage # "none" => job.serial # NoSerial

(* No serial is ahead of those yet to be used; one whose tick has come is   *)
(* behind them, and will not be used again.                                *)
NotAhead(s) == /\ s <= now + 1 /\ (serial # NoSerial => s <= serial)
               /\ job.stage # "none" => s <= job.serial
Past(s) == s <= now /\ (serial # NoSerial => s < serial)

ZoneBegins(z) == job.step[z] \in {"remove", "add", "names"}

(* Only a version that was begun early may share its serial with the one    *)
(* being committed.                                                        *)
SerialsUsed ==
    /\ serial # NoSerial => serial <= now + 1
    /\ job.stage # "none" => NotAhead(job.serial) /\ (job.early \/ Past(job.serial))
    /\ \A e \in ixfr : NotAhead(e.to)
    /\ \A z \in Zones :
         /\ NotAhead(latest[z])
         /\ \A i \in 1..Len(all[z]) :
              LET v == all[z][i]
              IN  /\ NotAhead(v.serial) /\ v.serial # NoSerial
                  /\ v.serial <= Log!LastSerial(z)
                  /\ v.early \/ Past(v.serial)
                  /\ ZoneBegins(z) => v.early \/ v.serial < job.serial

AgeInv == SafeInv /\ SerialsDue /\ SerialsUsed

-----------------------------------------------------------------------------
(* The kinds of steps there are, as to serials and commits.                *)

LEMMA ListenersOf ==
    ASSUME NEW s \in Seq(Waiters)
    PROVE  /\ \A w \in Waiters : {Append(s, w)[i] : i \in 1..Len(Append(s, w))}
                                   = {s[i] : i \in 1..Len(s)} \cup {w}
           /\ s # <<>> => /\ Head(s) \in {s[i] : i \in 1..Len(s)}
                          /\ {Tail(s)[i] : i \in 1..Len(Tail(s))}
                               \subseteq {s[i] : i \in 1..Len(s)}
           /\ {s[i] : i \in 1..Len(s)} \subseteq Waiters
<1>1. ASSUME NEW w \in Waiters
      PROVE  {Append(s, w)[i] : i \in 1..Len(Append(s, w))}
               = {s[i] : i \in 1..Len(s)} \cup {w}
  <2>1. /\ Len(Append(s, w)) = Len(s) + 1 /\ Append(s, w)[Len(s) + 1] = w
        /\ \A i \in 1..Len(s) : Append(s, w)[i] = s[i] /\ i \in 1..(Len(s) + 1)
        /\ Len(s) + 1 \in 1..(Len(s) + 1)
        /\ \A i \in 1..(Len(s) + 1) : i = Len(s) + 1 \/ i \in 1..Len(s)
    OBVIOUS
  <2>2. QED BY <2>1, Zenon
<1>2. ASSUME s # <<>>
      PROVE  /\ Head(s) \in {s[i] : i \in 1..Len(s)}
             /\ {Tail(s)[i] : i \in 1..Len(Tail(s))} \subseteq {s[i] : i \in 1..Len(s)}
  <2>1. 1 \in 1..Len(s) /\ Head(s) = s[1]
    BY <1>2
  <2>2. \A i \in 1..Len(Tail(s)) : Tail(s)[i] = s[i + 1] /\ i + 1 \in 1..Len(s)
    BY <1>2
  <2>3. {Tail(s)[i] : i \in 1..Len(Tail(s))} \subseteq {s[i] : i \in 1..Len(s)}
    <3> SUFFICES ASSUME NEW i \in 1..Len(Tail(s)) PROVE \E j \in 1..Len(s) : Tail(s)[i] = s[j]
      OBVIOUS
    <3>1. QED BY <2>2
  <2>4. QED BY <2>1, <2>3
<1>3. QED BY <1>1, <1>2

(* A serial that may be closed now.                                        *)
Due == \/ serial # NoSerial
       \/ timer # 0
       \/ \E w \in Listeners : w.kind = "close" /\ w.serial = serial

(* A commit starts, a serial is opened, or the stream goes on.             *)
Starts == /\ \E cb \in BOOLEAN : StartCommit(cb)
          /\ busy = "idle" /\ Due
          /\ UNCHANGED <<now, crashes, redis, finished, cut>>

Opens == /\ \E t \in BOOLEAN : OpenSerial(t)
         /\ UNCHANGED <<now, crashes, redis, finished, cut, job, busy>>

Goes == /\ UNCHANGED <<crashes, redis, finished, cut, job, serial>>
        /\ now' \in {now, now + 1} /\ timer' \in {timer, 0}
        /\ busy' = "commit" <=> busy = "commit"
        /\ \/ UNCHANGED <<opened, from>>
           \/ busy = "write" /\ \E Z : OpenZones(Z)

LEMMA CommitKeeps ==
    ASSUME CommitStep
    PROVE  /\ UNCHANGED <<now, crashes, serial, timer, opened, from>>
           /\ \/ CommitUnchanged
              \/ FinishCommit /\ BusyDone
  BY DEF CommitStep, PushRemoves, PushAdds, CommitName, PushAll, SetLatest,
         SaveNSRecords, StartVMRecords, SaveVMRecord, FinishCommit, CommitUnchanged

LEMMA StepKinds ==
    ASSUME SafeInv, [Next]_vars
    PROVE  Starts \/ Opens \/ Goes \/ CommitStep \/ Crash
<1> USE DEF memory, redis
<1>1. CASE Tick
  BY <1>1 DEF Tick, Goes
<1>2. CASE PollStart
  BY <1>2 DEF PollStart, Opens
<1>3. ASSUME NEW cb \in BOOLEAN, PollDone(cb) PROVE Starts \/ Goes
  BY <1>3 DEF PollDone, Starts, Due, DeferClose, Goes
<1>4. CASE TimerFires
  BY <1>4 DEF TimerFires, Starts, Due, DeferClose, Goes
<1>5. CASE RunListener
  <2> DEFINE w == Head(turn)
  <2>1. w \in Listeners /\ w.cb \in BOOLEAN
    BY <1>5, ListenersOf, ListenerTypes
       DEF RunListener, Quiet, SafeInv, TypeOK, Listeners, Waiters
  <2>2. CASE busy = "idle" /\ busy' = "write" /\ UNCHANGED <<serial, timer, opened, from, job>>
    BY <1>5, <2>2 DEF RunListener, Goes
  <2>3. CASE w.kind = "close" /\ w.serial = serial /\ busy = "idle" /\ StartCommit(w.cb)
    BY <1>5, <2>1, <2>3 DEF RunListener, Starts, Due
  <2>4. CASE UNCHANGED <<serial, timer, busy, opened, from, job>>
    BY <1>5, <2>4 DEF RunListener, Goes
  <2>5. QED BY <1>5, <2>2, <2>3, <2>4 DEF RunListener
<1>6. ASSUME NEW v \in VMs, NEW W \in Wants[v], Write(v, W) PROVE Goes
  BY <1>6 DEF Write, Goes
<1>7. CASE FetchLastRecs
  <2>1. CASE OpenSerial(TRUE)
    BY <1>7, <2>1 DEF FetchLastRecs, Opens
  <2>2. CASE UNCHANGED <<serial, timer, opened, from>>
    BY <1>7, <2>2 DEF FetchLastRecs, Goes
  <2>3. QED BY <1>7, <2>1, <2>2 DEF FetchLastRecs
<1>8. CASE RemoveEntries \/ SetEntries
  <2>1. busy = "write" /\ busy' # "commit"
    BY <1>8, WriteRuns DEF RemoveEntries, SetEntries, BusyDone
  <2>2. \E Z : OpenZones(Z)
    BY <1>8 DEF RemoveEntries, SetEntries
  <2>3. UNCHANGED <<now, crashes, redis, finished, cut, job, serial, timer>>
    BY <1>8 DEF RemoveEntries, SetEntries
  <2>4. QED BY <2>1, <2>2, <2>3 DEF Goes
<1>9. CASE UNCHANGED vars
  BY <1>9 DEF vars, Goes
<1>10. (\E cb \in Callbacks : PollDone(cb)) => Starts \/ Goes
  BY <1>3, CallersAssumption
<1>11. QED BY <1>1, <1>2, <1>4, <1>5, <1>6, <1>7, <1>8, <1>9, <1>10 DEF Next, WriteStep

(* Only closeSerial() on a busy stream adds a listener that closes.        *)
LEMMA NewListener ==
    ASSUME SafeInv, [Next]_vars, NEW w \in Listeners', w \notin Listeners,
           w.kind = "close"
    PROVE  /\ w.serial = serial /\ UNCHANGED <<now, serial, job, finished>>
           /\ serial # NoSerial \/ timer # 0
<1> USE DEF memory, redis
<1>0. deferred \in Seq(Waiters) /\ turn \in Seq(Waiters)
  BY DEF SafeInv, TypeOK
<1>d. ASSUME NEW cb \in BOOLEAN, DeferClose(cb), UNCHANGED turn
      PROVE  /\ w = CloseWaiter(serial, cb) /\ w.serial = serial
             /\ UNCHANGED <<serial, job>>
  <2>1. CloseWaiter(serial, cb) \in Waiters
    BY WaiterTypes DEF SafeInv, TypeOK
  <2>2. Listeners' = Listeners \cup {CloseWaiter(serial, cb)}
    <3> DEFINE W == CloseWaiter(serial, cb)
    <3>1. deferred' = Append(deferred, W) /\ turn' = turn
      BY <1>d DEF DeferClose
    <3> HIDE DEF W
    <3>2. {Append(deferred, W)[i] : i \in 1..Len(Append(deferred, W))}
            = {deferred[i] : i \in 1..Len(deferred)} \cup {W}
      BY <1>0, <2>1, ListenersOf DEF W
    <3>3. Listeners' = Listeners \cup {W}
      BY <3>1, <3>2 DEF Listeners
    <3>4. QED BY <3>3 DEF W
  <2>3. QED BY <1>d, <2>2 DEF DeferClose, CloseWaiter
<1>s. ASSUME UNCHANGED <<turn, deferred>> PROVE FALSE
  BY <1>s DEF Listeners
<1>b. ASSUME BusyDone PROVE FALSE
  BY <1>b DEF BusyDone, Listeners
<1>1. CASE Tick \/ PollStart \/ FetchLastRecs \/ RemoveEntries \/ UNCHANGED vars
  BY <1>1, <1>s DEF Tick, PollStart, FetchLastRecs, RemoveEntries, vars
<1>2. ASSUME NEW cb \in BOOLEAN, PollDone(cb)
      PROVE  /\ w.serial = serial /\ UNCHANGED <<now, serial, job, finished>>
             /\ serial # NoSerial
  <2>1. UNCHANGED turn /\ (DeferClose(cb) \/ UNCHANGED deferred)
    BY <1>2 DEF PollDone, StartCommit
  <2>2. DeferClose(cb)
    BY <1>s, <2>1
  <2>3. serial # NoSerial
    BY <1>0, <1>2, <2>1, <2>2, <1>s DEF PollDone
  <2>4. QED BY <1>2, <1>d, <2>1, <2>2, <2>3 DEF PollDone
<1>3. CASE TimerFires
  <2>1. UNCHANGED turn /\ (DeferClose(FALSE) \/ UNCHANGED deferred)
    BY <1>3 DEF TimerFires, StartCommit
  <2>2. QED BY <1>3, <1>d, <1>s, <2>1 DEF TimerFires
<1>4. CASE RunListener
  <2> DEFINE h == Head(turn)
  <2>1. turn # <<>> /\ turn' = Tail(turn)
    BY <1>4 DEF RunListener, Quiet
  <2>2. h \in Waiters
    BY <1>0, <2>1, ListenerTypes
  <2>3. UNCHANGED deferred \/ deferred' = Append(deferred, h)
    BY <1>4 DEF RunListener, StartCommit
  <2>4. /\ h \in {turn[i] : i \in 1..Len(turn)}
        /\ {Tail(turn)[i] : i \in 1..Len(Tail(turn))} \subseteq {turn[i] : i \in 1..Len(turn)}
    BY <1>0, <2>1, ListenersOf
  <2>5. {Append(deferred, h)[i] : i \in 1..Len(Append(deferred, h))}
          = {deferred[i] : i \in 1..Len(deferred)} \cup {h}
    BY <1>0, <2>2, ListenersOf
  <2>6. CASE UNCHANGED deferred
    BY <2>1, <2>4, <2>6, Zenon DEF Listeners
  <2>7. CASE deferred' = Append(deferred, h)
    BY <2>1, <2>4, <2>5, <2>7, Zenon DEF Listeners
  <2>8. QED BY <2>3, <2>6, <2>7
<1>5. ASSUME NEW v \in VMs, NEW W \in Wants[v], Write(v, W) PROVE FALSE
  <2>1. deferred' = Append(deferred, WriteWaiter) /\ UNCHANGED turn
    BY <1>5, <1>s DEF Write
  <2>2. Listeners' = Listeners \cup {WriteWaiter}
    <3>1. {Append(deferred, WriteWaiter)[i] : i \in 1..Len(Append(deferred, WriteWaiter))}
            = {deferred[i] : i \in 1..Len(deferred)} \cup {WriteWaiter}
      BY <1>0, WaiterTypes, ListenersOf
    <3>2. QED BY <2>1, <3>1 DEF Listeners
  <2>3. QED BY <2>2 DEF WriteWaiter
<1>6. CASE SetEntries
  BY <1>6, <1>b DEF SetEntries
<1>7. CASE CommitStep
  BY <1>7, <1>s, <1>b, CommitKeeps DEF CommitUnchanged
<1>8. CASE Crash
  BY <1>8 DEF Crash, Listeners
<1>9. CASE \E cb \in Callbacks : PollDone(cb)
  BY <1>2, <1>9, CallersAssumption
<1>10. QED BY <1>1, <1>3, <1>4, <1>5, <1>6, <1>7, <1>8, <1>9 DEF Next, WriteStep

-----------------------------------------------------------------------------
(* Serials increase.                                                       *)

LEMMA AgeTypes ==
    ASSUME TypeOK
    PROVE  /\ now \in Nat /\ serial \in Nat /\ timer \in Nat /\ finished \subseteq Nat
           /\ \A z \in Zones : /\ latest[z] \in Nat /\ all[z] \in Seq(Versions)
                               /\ \A i \in 1..Len(all[z]) : all[z][i] \in Versions
                               /\ \A i \in 1..Len(all[z]) : all[z][i].serial \in Nat
           /\ \A e \in ixfr : e.to \in Nat
           /\ \A w \in Listeners : w \in Waiters /\ w.serial \in Nat
           /\ job \in Jobs /\ job.serial \in Nat
<1>0. \A s \in Seq(Versions) : \A i \in 1..Len(s) : s[i] \in Versions
  OBVIOUS
<1>1. \A z \in Zones : /\ latest[z] \in Nat /\ all[z] \in Seq(Versions)
                       /\ \A i \in 1..Len(all[z]) : all[z][i] \in Versions
  <2>1. latest \in [Zones -> Nat] /\ all \in [Zones -> Seq(Versions)]
    BY DEF TypeOK
  <2>2. QED BY <1>0, <2>1
<1>2. \A z \in Zones : \A i \in 1..Len(all[z]) : all[z][i].serial \in Nat
  BY <1>1 DEF Versions
<1>3. \A w \in Listeners : w \in Waiters
  BY ListenersOf DEF TypeOK, Listeners
<1>4. \A w \in Listeners : w.serial \in Nat
  BY <1>3 DEF Waiters
<1>5. job \in Jobs /\ job.serial \in Nat
  BY DEF TypeOK, Jobs
<1>6. \A e \in ixfr : e.to \in Nat
  BY DEF TypeOK, IxfrEntries
<1>7. QED BY <1>1, <1>2, <1>3, <1>4, <1>5, <1>6 DEF TypeOK

(* What a commit step does to the job.                                     *)
SameJob == /\ job'.serial = job.serial /\ job'.from = job.from
           /\ job'.rms = job.rms /\ job'.adds = job.adds
           /\ job'.early = job.early

LEMMA JobMoves ==
    ASSUME TypeOK, NEW z \in Zones, NEW s, job' = [job EXCEPT !.step[z] = s]
    PROVE  /\ SameJob /\ job'.stage = job.stage /\ job'.zones = job.zones
           /\ job'.names = job.names
           /\ job'.step[z] = s /\ \A y \in Zones \ {z} : job'.step[y] = job.step[y]
<1>1. job \in Jobs /\ job.step \in [Zones -> ZoneSteps]
  BY DEF TypeOK, Jobs
<1>2. QED BY <1>1 DEF Jobs, SameJob

LEMMA JobKeeps ==
    ASSUME TypeOK,
           \/ \E z \in Zones, n \in Names : CommitName(z, n)
           \/ StartVMRecords
           \/ \E v \in VMs : SaveVMRecord(v)
           \/ \E z \in Zones : SaveNSRecords(z)
    PROVE  /\ SameJob /\ job'.step = job.step /\ {job.stage, job'.stage} \subseteq {"zones", "vms"}
           /\ UNCHANGED <<now, crashes, serial, timer, opened, from, finished>>
           /\ UNCHANGED <<latest, all, ixfr>>
<1>1. job \in Jobs
  BY DEF TypeOK
<1>2. QED
  BY <1>1 DEF CommitName, StartVMRecords, SaveVMRecord, SaveNSRecords, Jobs, SameJob,
              CommitUnchanged, redis, VMRecordsSaved

(* Only a serial that is open is closed.                                   *)
LEMMA DueSerial ==
    ASSUME AgeInv, Due
    PROVE  serial # NoSerial
  BY DEF Due, AgeInv, SerialsDue

LEMMA ListenersDue ==
    ASSUME AgeInv, [Next]_vars, NEW w \in Listeners', w.kind = "close"
    PROVE  w.serial # NoSerial
<1>1. CASE w \in Listeners
  BY <1>1 DEF AgeInv, SerialsDue
<1>2. CASE w \notin Listeners
  <2>1. w.serial = serial /\ (serial # NoSerial \/ timer # 0)
    BY <1>2, NewListener DEF AgeInv
  <2>2. QED BY <2>1 DEF AgeInv, SerialsDue
<1>3. QED BY <1>1, <1>2

(* The rest of AgeInv, for each kind of step.                              *)
AgeNext == /\ timer' # 0 => serial' # NoSerial
           /\ job'.stage # "none" => job'.serial # NoSerial
           /\ SerialsUsed'

(* The versions of a zone, with the serial it logged last.                 *)
VersionsUsed(z) ==
    \A i \in 1..Len(all[z]) :
        /\ NotAhead(all[z][i].serial) /\ all[z][i].serial # NoSerial
        /\ all[z][i].serial <= Log!LastSerial(z)
        /\ all[z][i].early \/ Past(all[z][i].serial)
        /\ ZoneBegins(z) => all[z][i].early \/ all[z][i].serial < job.serial

LEMMA UsedBy ==
    ASSUME serial # NoSerial => serial <= now + 1,
           job.stage # "none" => NotAhead(job.serial) /\ (job.early \/ Past(job.serial)),
           \A e \in ixfr : NotAhead(e.to),
           \A z \in Zones : NotAhead(latest[z]),
           \A z \in Zones : VersionsUsed(z)
    PROVE  SerialsUsed
  BY DEF SerialsUsed, VersionsUsed

LEMMA UsedHas ==
    ASSUME SerialsUsed, NEW z \in Zones
    PROVE  VersionsUsed(z)
  BY DEF SerialsUsed, VersionsUsed

LEMMA SameVersions ==
    ASSUME NEW z \in Zones, TypeOK, VersionsUsed(z), all'[z] = all[z],
           \A s \in Nat : NotAhead(s) => NotAhead(s)',
           \A s \in Nat : Past(s) => Past(s)',
           ZoneBegins(z)' => \A i \in 1..Len(all[z]) :
               all[z][i].early \/ all[z][i].serial < job'.serial
    PROVE  VersionsUsed(z)'
<1>1. \A i \in 1..Len(all[z]) : all[z][i].serial \in Nat
  BY AgeTypes
<1>2. Log!LastSerial(z)' = Log!LastSerial(z)
  BY DEF Log!LastSerial
<1>3. ASSUME NEW i \in 1..Len(all'[z])
      PROVE  /\ NotAhead(all[z][i].serial)' /\ all'[z][i].serial # NoSerial
             /\ all'[z][i].serial <= Log!LastSerial(z)'
             /\ all'[z][i].early \/ Past(all[z][i].serial)'
             /\ ZoneBegins(z)' => all'[z][i].early \/ all'[z][i].serial < job'.serial
  <2>1. i \in 1..Len(all[z]) /\ all[z][i].serial \in Nat
    BY <1>1
  <2>2. /\ NotAhead(all[z][i].serial) /\ all[z][i].serial # NoSerial
        /\ all[z][i].serial <= Log!LastSerial(z)
        /\ all[z][i].early \/ Past(all[z][i].serial)
    BY <2>1 DEF VersionsUsed
  <2>3. NotAhead(all[z][i].serial)'
    <3>1. NotAhead(all[z][i].serial) => NotAhead(all[z][i].serial)'
      BY <2>1 DEF NotAhead
    <3>2. QED BY <2>2, <3>1
  <2>4. Past(all[z][i].serial) => Past(all[z][i].serial)'
    BY <2>1 DEF Past
  <2>5. QED BY <1>2, <2>1, <2>2, <2>3, <2>4
<1>4. QED BY <1>3 DEF VersionsUsed

LEMMA AllPushed ==
    ASSUME TypeOK, NEW z \in Zones, PushAll(z)
    PROVE  /\ NewVersion(z) \in Versions /\ all[z] \in Seq(Versions)
           /\ all'[z] = Append(all[z], NewVersion(z)) /\ all'[z] \in Seq(Versions)
           /\ Len(all'[z]) = Len(all[z]) + 1
           /\ all'[z][Len(all[z]) + 1] = NewVersion(z)
           /\ \A i \in 1..Len(all[z]) : all'[z][i] = all[z][i]
           /\ \A y \in Zones \ {z} : all'[y] = all[y]
<1>1. NewVersion(z) \in Versions /\ all[z] \in Seq(Versions)
  BY AgeTypes DEF NewVersion, Versions, InZone, TypeOK, Jobs
<1>2. all' = [all EXCEPT ![z] = Append(all[z], NewVersion(z))]
  BY DEF PushAll
<1>3. all'[z] = Append(all[z], NewVersion(z)) /\ \A y \in Zones \ {z} : all'[y] = all[y]
  BY <1>2 DEF TypeOK
<1>4. QED BY <1>1, <1>3

LEMMA StartAge ==
    ASSUME AgeInv, Starts
    PROVE  AgeNext
<1>1. serial # NoSerial
  BY DueSerial DEF Starts
<1>2. /\ serial' = NoSerial /\ timer' = 0 /\ job'.serial = serial
      /\ job'.stage = "zones" /\ job.stage = "none"
      /\ now < serial => job'.early
  <2>1. /\ serial' = NoSerial /\ timer' = 0 /\ job'.serial = serial
        /\ job'.stage = "zones" /\ job.stage = "none"
    BY JobStarts DEF Starts, StartCommit, AgeInv, SafeInv, Lock
  <2>2. job'.early = (now < serial)
    BY DEF Starts, StartCommit, NoJob
  <2>3. QED BY <2>1, <2>2
<1>3. UNCHANGED <<now, finished, ixfr, latest, all>>
  BY DEF Starts, redis
<1>4. now \in Nat /\ serial \in Nat /\ TypeOK
  BY AgeTypes DEF AgeInv, SafeInv
<1>5. \A s \in Nat : NotAhead(s) => NotAhead(s)'
  BY <1>1, <1>2, <1>3, <1>4 DEF NotAhead
<1>6. \A s \in Nat : Past(s) => Past(s)' /\ s < serial
  BY <1>1, <1>2, <1>3, <1>4 DEF Past
<1>7. NotAhead(job.serial)' /\ (job'.early \/ Past(job.serial)')
  <2>1. serial <= now + 1
    BY <1>1 DEF AgeInv, SerialsUsed
  <2>2. NotAhead(job.serial)'
    BY <1>2, <1>3, <1>4, <2>1 DEF NotAhead
  <2>3. ~(now < serial) => Past(job.serial)'
    BY <1>2, <1>3, <1>4 DEF Past
  <2>4. QED BY <1>2, <2>2, <2>3
<1>8. \A e \in ixfr' : NotAhead(e.to)'
  BY <1>3, <1>4, <1>5, AgeTypes DEF AgeInv, SerialsUsed, NotAhead
<1>9. \A z \in Zones : NotAhead(latest[z])'
  BY <1>3, <1>4, <1>5, AgeTypes DEF AgeInv, SerialsUsed, NotAhead
<1>10. ASSUME NEW z \in Zones PROVE VersionsUsed(z)'
  <2>1. VersionsUsed(z)
    BY UsedHas DEF AgeInv
  <2>2. \A i \in 1..Len(all[z]) : all[z][i].early \/ all[z][i].serial < job'.serial
    BY <1>2, <1>4, <1>6, <2>1, AgeTypes DEF VersionsUsed
  <2>3. QED BY <1>3, <1>4, <1>5, <1>6, <2>1, <2>2, SameVersions
<1>11. serial' # NoSerial => serial' <= now' + 1
  BY <1>2
<1>12. SerialsUsed'
  BY <1>7, <1>8, <1>9, <1>10, <1>11 DEF SerialsUsed, VersionsUsed
<1>13. QED BY <1>1, <1>2, <1>12 DEF AgeNext

(* The tick after a later one is later.                                   *)
LEMMA LaterTick == \A a, b, s \in Nat : a <= b /\ s <= a + 1 => s <= b + 1
  OBVIOUS

(* Whatever neither uses a serial nor starts to: all that is used stays    *)
(* used when the one that is open changes, if that is not smaller.         *)
LEMMA KeepsUsed ==
    ASSUME AgeInv, UNCHANGED <<ixfr, latest, all>>,
           now' \in Nat, now <= now', serial' \in Nat,
           serial' # NoSerial => serial' = serial \/ serial' = now + 1,
           \/ SameJob /\ job'.step = job.step /\ (job.stage = "none" <=> job'.stage = "none")
           \/ job'.stage = "none" /\ \A z \in Zones : job'.step[z] = "done"
    PROVE  SerialsUsed'
<1>1. now \in Nat /\ serial \in Nat /\ job.serial \in Nat /\ TypeOK
  BY AgeTypes DEF AgeInv, SafeInv
<1>2. \A s \in Nat : Past(s) => Past(s)'
  BY <1>1 DEF Past
<1>3. \A s \in Nat : NotAhead(s) => NotAhead(s)'
  <2>1. SUFFICES ASSUME NEW s \in Nat, NotAhead(s) PROVE NotAhead(s)'
    OBVIOUS
  <2>a. s <= now + 1 /\ (serial # NoSerial => s <= serial)
    BY <2>1 DEF NotAhead
  <2>2. s <= now' + 1 /\ (serial' # NoSerial => s <= serial')
    <3>1. s <= now' + 1
      BY <1>1, <2>a, LaterTick
    <3>2. serial' # NoSerial => s <= serial'
      BY <1>1, <2>a
    <3>3. QED BY <3>1, <3>2
  <2>3. job'.stage # "none" => s <= job'.serial
    BY <2>1 DEF NotAhead, SameJob
  <2>4. QED BY <2>2, <2>3 DEF NotAhead
<1>4. job'.stage # "none" => NotAhead(job.serial)' /\ (job'.early \/ Past(job.serial)')
  <2>1. SUFFICES ASSUME job'.stage # "none" PROVE NotAhead(job.serial)' /\ (job'.early \/ Past(job.serial)')
    OBVIOUS
  <2>2. job'.serial = job.serial /\ job'.early = job.early /\ job.stage # "none"
    BY <2>1 DEF SameJob
  <2>3. NotAhead(job.serial) /\ (job.early \/ Past(job.serial))
    BY <2>2 DEF AgeInv, SerialsUsed
  <2>4. NotAhead(job.serial)'
    <3>1. \A s \in Nat : s = job.serial => (NotAhead(s) => NotAhead(s)')
      BY <1>3
    <3>2. QED BY <1>1, <2>2, <2>3, <3>1 DEF NotAhead
  <2>5. Past(job.serial) => Past(job.serial)'
    BY <1>1, <1>2, <2>2 DEF Past
  <2>6. QED BY <2>2, <2>3, <2>4, <2>5
<1>5. serial' # NoSerial => serial' <= now' + 1
  <2>1. serial' # NoSerial => serial' <= now + 1
    BY <1>1 DEF AgeInv, SerialsUsed
  <2>2. QED BY <1>1, <2>1, LaterTick
<1>6. \A e \in ixfr' : NotAhead(e.to)'
  BY <1>1, <1>3, AgeTypes DEF AgeInv, SerialsUsed, NotAhead
<1>7. \A z \in Zones : NotAhead(latest[z])'
  BY <1>1, <1>3, AgeTypes DEF AgeInv, SerialsUsed, NotAhead
<1>8. ASSUME NEW z \in Zones PROVE VersionsUsed(z)'
  <2>1. VersionsUsed(z)
    BY UsedHas DEF AgeInv
  <2>2. ZoneBegins(z)' => /\ ZoneBegins(z) /\ job'.serial = job.serial
    BY DEF ZoneBegins, SameJob
  <2>3. ZoneBegins(z)' => \A i \in 1..Len(all[z]) :
          all[z][i].early \/ all[z][i].serial < job'.serial
    BY <2>1, <2>2 DEF VersionsUsed
  <2>4. QED BY <1>1, <1>2, <1>3, <2>1, <2>3, SameVersions
<1>9. QED BY <1>4, <1>5, <1>6, <1>7, <1>8 DEF SerialsUsed, VersionsUsed

LEMMA OpenGoAge ==
    ASSUME AgeInv, Opens \/ Goes
    PROVE  AgeNext
<1>1. now \in Nat /\ serial \in Nat /\ timer \in Nat /\ job.serial \in Nat
  BY AgeTypes DEF AgeInv, SafeInv
<1>2. UNCHANGED <<ixfr, latest, all, job>>
  BY DEF Opens, Goes, redis
<1>3. /\ now' \in Nat /\ now <= now' /\ serial' \in Nat
      /\ serial' = serial \/ serial' = now + 1
      /\ timer' # 0 => serial' # NoSerial
  <2>1. CASE Opens
    BY <1>1, <2>1 DEF Opens, OpenSerial, NextSerial, AgeInv, SerialsDue, NoSerial
  <2>2. CASE Goes
    BY <1>1, <2>2 DEF Goes, AgeInv, SerialsDue
  <2>3. QED BY <2>1, <2>2
<1>4. SerialsUsed'
  BY <1>2, <1>3, KeepsUsed DEF SameJob
<1>5. job'.stage # "none" => job'.serial # NoSerial
  BY <1>2 DEF AgeInv, SerialsDue
<1>6. QED BY <1>3, <1>4, <1>5 DEF AgeNext

LEMMA CrashAge ==
    ASSUME AgeInv, Crash
    PROVE  AgeNext
<1>1. /\ serial' = NoSerial /\ timer' = 0 /\ job' = NoJob
      /\ UNCHANGED <<now, ixfr, latest, all>>
  BY DEF Crash, redis
<1>2. job'.stage = "none" /\ \A z \in Zones : job'.step[z] = "done"
  BY <1>1 DEF NoJob
<1>3. /\ now' \in Nat /\ now <= now' /\ serial' \in Nat
      /\ serial' = NoSerial
  BY <1>1, AgeTypes DEF AgeInv, SafeInv, NoSerial
<1>4. SerialsUsed'
  BY <1>1, <1>2, <1>3, KeepsUsed
<1>5. QED BY <1>1, <1>2, <1>4 DEF AgeNext

LEMMA CommitAge ==
    ASSUME AgeInv, CommitStep
    PROVE  AgeNext
<1>0. /\ job.stage # "none" /\ UNCHANGED <<now, serial, timer>>
      /\ TypeOK /\ SafeInv
  BY CommitRuns, CommitKeeps DEF AgeInv, SafeInv
<1>t. now \in Nat /\ serial \in Nat /\ job.serial \in Nat /\ job.early \in BOOLEAN
  BY <1>0, AgeTypes DEF TypeOK, Jobs
<1>k. /\ now' \in Nat /\ now <= now' /\ serial' \in Nat
      /\ serial' # NoSerial => serial' = serial
  BY <1>0, <1>t
<1>d. /\ timer' # 0 => serial' # NoSerial
      /\ job.serial # NoSerial
      /\ serial' # NoSerial => serial' <= now' + 1
      /\ NotAhead(job.serial) /\ (job.early \/ Past(job.serial))
  BY <1>0 DEF AgeInv, SerialsDue, SerialsUsed
<1>p. \A s \in Nat : Past(s) => Past(s)'
  BY <1>0 DEF Past
<1>u. ASSUME SameJob PROVE \A s \in Nat : NotAhead(s) => NotAhead(s)'
  BY <1>0, <1>u DEF NotAhead, SameJob
<1>j. ASSUME SameJob
      PROVE  NotAhead(job.serial)' /\ (job'.early \/ Past(job.serial)')
  BY <1>0, <1>d, <1>j DEF NotAhead, Past, SameJob
(* The lists of a zone: entries to the serial of the job join.             *)
<1>1. ASSUME NEW z \in Zones, PushRemoves(z) \/ PushAdds(z)
      PROVE  SerialsUsed' /\ SameJob
  <2>1. PICK s \in {"add", "names"} : job' = [job EXCEPT !.step[z] = s]
    BY <1>1 DEF PushRemoves, PushAdds
  <2>2. /\ SameJob /\ job'.step[z] = s
        /\ \A y \in Zones \ {z} : job'.step[y] = job.step[y]
    BY <1>0, <2>1, JobMoves
  <2>3. \A y \in Zones : ZoneBegins(y)' => ZoneBegins(y)
    BY <1>1, <2>2 DEF ZoneBegins, PushRemoves, PushAdds
  <2>5. UNCHANGED <<latest, all>>
    BY <1>1 DEF PushRemoves, PushAdds, CommitUnchanged
  <2>6. \A e \in ixfr' : e \in ixfr \/ e.to = job.serial
    BY <1>1 DEF PushRemoves, PushAdds, Entries
  <2>7. \A e \in ixfr' : NotAhead(e.to)'
    <3>1. \A e \in ixfr : NotAhead(e.to)'
      BY <1>0, <1>u, <2>2, AgeTypes DEF AgeInv, SerialsUsed, NotAhead
    <3>2. QED BY <1>j, <2>2, <2>6, <3>1 DEF NotAhead, SameJob
  <2>8. ASSUME NEW y \in Zones PROVE NotAhead(latest[y])' /\ VersionsUsed(y)'
    <3>1. VersionsUsed(y) /\ latest[y] \in Nat /\ NotAhead(latest[y])
      BY <1>0, UsedHas, AgeTypes DEF AgeInv, SerialsUsed
    <3>2. NotAhead(latest[y])'
      BY <1>u, <2>2, <2>5, <3>1 DEF NotAhead
    <3>3. ZoneBegins(y)' => \A i \in 1..Len(all[y]) :
            all[y][i].early \/ all[y][i].serial < job'.serial
      BY <2>2, <2>3, <3>1 DEF VersionsUsed, SameJob
    <3>4. VersionsUsed(y)'
      BY <1>0, <1>p, <1>u, <2>2, <2>5, <3>1, <3>3, SameVersions
    <3>5. QED BY <3>2, <3>4
  <2>9. QED BY <1>d, <1>j, <2>2, <2>7, <2>8 DEF SerialsUsed, VersionsUsed
<1>2. ASSUME NEW z \in Zones, PushAll(z)
      PROVE  SerialsUsed' /\ SameJob
  <2>1. /\ SameJob /\ job'.step[z] = "latest"
        /\ \A y \in Zones \ {z} : job'.step[y] = job.step[y]
    BY <1>0, <1>2, JobMoves DEF PushAll
  <2>2. UNCHANGED <<latest, ixfr>>
    BY <1>2 DEF PushAll, CommitUnchanged
  <2> DEFINE new == NewVersion(z)
  <2>3. /\ all'[z] = Append(all[z], new) /\ all[z] \in Seq(Versions)
        /\ \A y \in Zones \ {z} : all'[y] = all[y]
        /\ Len(all'[z]) = Len(all[z]) + 1 /\ all'[z][Len(all[z]) + 1] = new
        /\ \A i \in 1..Len(all[z]) : all'[z][i] = all[z][i]
    BY <1>0, <1>2, AllPushed
  <2>4. new.serial = job.serial /\ new.early = job.early
    BY DEF NewVersion
  <2> HIDE DEF new
  <2>5. Log!LastSerial(z)' = job.serial
    BY <2>3, <2>4 DEF Log!LastSerial
  <2>6. VersionsUsed(z)'
    <3>1. ASSUME NEW i \in 1..Len(all'[z])
          PROVE  /\ NotAhead(all[z][i].serial)' /\ all'[z][i].serial # NoSerial
                 /\ all'[z][i].serial <= job.serial
                 /\ all'[z][i].early \/ Past(all[z][i].serial)'
      <4>1. CASE i \in 1..Len(all[z])
        <5>1. /\ NotAhead(all[z][i].serial) /\ all[z][i].serial # NoSerial
              /\ all[z][i].early \/ Past(all[z][i].serial)
              /\ all[z][i].serial \in Nat /\ all'[z][i] = all[z][i]
          BY <1>0, <2>3, <4>1, UsedHas, AgeTypes DEF VersionsUsed, AgeInv
        <5>2. all[z][i].serial <= job.serial
          BY <1>0, <5>1 DEF NotAhead
        <5>3. NotAhead(all[z][i].serial)'
          BY <1>u, <2>1, <5>1 DEF NotAhead
        <5>4. Past(all[z][i].serial) => Past(all[z][i].serial)'
          BY <1>p, <5>1 DEF Past
        <5>5. QED BY <5>1, <5>2, <5>3, <5>4
      <4>2. CASE i = Len(all[z]) + 1
        <5>1. all'[z][i].serial = job.serial /\ all'[z][i].early = job.early
          BY <2>3, <2>4, <4>2
        <5>2. job'.serial = job.serial /\ job'.early = job.early
          BY <2>1 DEF SameJob
        <5>3. QED BY <1>d, <1>j, <1>t, <2>1, <5>1, <5>2 DEF NotAhead, Past
      <4>3. QED BY <2>3, <4>1, <4>2
    <3>2. ~ZoneBegins(z)'
      BY <2>1 DEF ZoneBegins
    <3>3. QED BY <2>5, <3>1, <3>2 DEF VersionsUsed
  <2>7. \A e \in ixfr' : NotAhead(e.to)'
    BY <1>0, <1>u, <2>1, <2>2, AgeTypes DEF AgeInv, SerialsUsed, NotAhead
  <2>8. \A y \in Zones : NotAhead(latest[y])'
    BY <1>0, <1>u, <2>1, <2>2, AgeTypes DEF AgeInv, SerialsUsed, NotAhead
  <2>9. ASSUME NEW y \in Zones \ {z} PROVE VersionsUsed(y)'
    <3>1. VersionsUsed(y) /\ all'[y] = all[y]
      BY <2>3, UsedHas DEF AgeInv
    <3>2. ZoneBegins(y)' => \A i \in 1..Len(all[y]) :
            all[y][i].early \/ all[y][i].serial < job'.serial
      BY <2>1, <3>1 DEF VersionsUsed, ZoneBegins, SameJob
    <3>3. QED BY <1>0, <1>p, <1>u, <2>1, <3>1, <3>2, SameVersions
  <2>10. \A y \in Zones : VersionsUsed(y)'
    BY <2>6, <2>9
  <2>11. QED BY <1>d, <1>j, <2>1, <2>7, <2>8, <2>10 DEF SerialsUsed, VersionsUsed
<1>3. ASSUME NEW z \in Zones, SetLatest(z)
      PROVE  SerialsUsed' /\ SameJob
  <2>1. /\ SameJob /\ job'.step[z] = "done"
        /\ \A y \in Zones \ {z} : job'.step[y] = job.step[y]
    BY <1>0, <1>3, JobMoves DEF SetLatest
  <2>2. /\ UNCHANGED <<all, ixfr>>
        /\ latest'[z] = job.serial /\ \A y \in Zones \ {z} : latest'[y] = latest[y]
    BY <1>0, <1>3 DEF SetLatest, CommitUnchanged, TypeOK
  <2>4. \A e \in ixfr' : NotAhead(e.to)'
    BY <1>0, <1>u, <2>1, <2>2, AgeTypes DEF AgeInv, SerialsUsed, NotAhead
  <2>5. ASSUME NEW y \in Zones PROVE NotAhead(latest[y])' /\ VersionsUsed(y)'
    <3>1. NotAhead(latest[y])'
      <4>1. CASE y = z
        BY <1>j, <2>1, <2>2, <4>1 DEF NotAhead, SameJob
      <4>2. CASE y # z
        BY <1>0, <1>u, <2>1, <2>2, <4>2, AgeTypes DEF AgeInv, SerialsUsed, NotAhead
      <4>3. QED BY <4>1, <4>2
    <3>2. VersionsUsed(y)
      BY UsedHas DEF AgeInv
    <3>3. ZoneBegins(y)' => \A i \in 1..Len(all[y]) :
            all[y][i].early \/ all[y][i].serial < job'.serial
      BY <2>1, <3>2 DEF VersionsUsed, ZoneBegins, SameJob
    <3>4. VersionsUsed(y)'
      BY <1>0, <1>p, <1>u, <2>1, <2>2, <3>2, <3>3, SameVersions
    <3>5. QED BY <3>1, <3>4
  <2>7. QED BY <1>d, <1>j, <2>1, <2>4, <2>5 DEF SerialsUsed, VersionsUsed
<1>4. ASSUME \/ \E z \in Zones, n \in Names : CommitName(z, n)
             \/ StartVMRecords
             \/ \E v \in VMs : SaveVMRecord(v)
             \/ \E z \in Zones : SaveNSRecords(z)
      PROVE  SerialsUsed' /\ SameJob
  <2>1. /\ SameJob /\ job'.step = job.step /\ {job.stage, job'.stage} \subseteq {"zones", "vms"}
        /\ UNCHANGED <<now, serial, latest, all, ixfr>>
    BY <1>0, <1>4, JobKeeps
  <2>2. SerialsUsed'
    BY <1>k, <2>1, KeepsUsed
  <2>3. QED BY <2>1, <2>2
<1>5. CASE FinishCommit
  <2>1. job' = NoJob /\ UNCHANGED <<ixfr, latest, all>>
    BY <1>5 DEF FinishCommit, redis
  <2>2. job'.stage = "none" /\ \A z \in Zones : job'.step[z] = "done"
    BY <2>1 DEF NoJob
  <2>3. SerialsUsed'
    BY <1>0, <1>k, <2>1, <2>2, KeepsUsed
  <2>4. QED BY <1>d, <2>2, <2>3 DEF AgeNext
<1>6. CASE ~FinishCommit
  <2>1. SerialsUsed' /\ SameJob
    BY <1>0, <1>1, <1>2, <1>3, <1>4, <1>6 DEF CommitStep
  <2>2. QED BY <1>d, <2>1 DEF AgeNext, SameJob
<1>7. QED BY <1>5, <1>6

LEMMA AgeInit == Init => AgeInv
<1> SUFFICES ASSUME Init PROVE AgeInv
  OBVIOUS
<1>1. /\ job.stage = "none" /\ \A z \in Zones : job.step[z] = "done"
      /\ Listeners = {}
  BY DEF Init, NoJob, Listeners
<1>2. \A z \in Zones : latest[z] = 0 /\ Len(all[z]) = 0
  BY DEF Init, NoSerial
<1>3. SerialsDue
  BY <1>1 DEF Init, SerialsDue
<1>4. SerialsUsed
  BY <1>1, <1>2 DEF Init, SerialsUsed, NotAhead, NoSerial
<1>5. QED BY <1>3, <1>4, SafeInit DEF AgeInv

LEMMA AgeStep ==
    ASSUME AgeInv, [Next]_vars
    PROVE  AgeInv'
<1>1. AgeNext
  BY StepKinds, StartAge, OpenGoAge, CommitAge, CrashAge DEF AgeInv
<1>2. \A w \in Listeners' : w.kind = "close" => w.serial # NoSerial
  BY ListenersDue
<1>3. SafeInv'
  BY SafeStep DEF AgeInv
<1>4. QED BY <1>1, <1>2, <1>3 DEF AgeInv, AgeNext, SerialsDue

-----------------------------------------------------------------------------
(* The NS records of a serial.                                             *)

NSInv ==
    /\ ServedSerialHasNS
    /\ \A z \in Zones : job.step[z] # "done" => z \in job.zones

LEMMA NSStep ==
    ASSUME SafeInv, NSInv, [Next]_vars
    PROVE  NSInv'
<1>t. TypeOK /\ job.serial \in Nat /\ \A z \in Zones : latest[z] \in Nat
  BY AgeTypes DEF SafeInv
<1>1. CASE Starts
  <2>1. UNCHANGED <<latest, nsrecs, cut>> /\ job.zones = {}
    BY <1>1 DEF Starts, redis, SafeInv, Lock, NoJob
  <2>2. \A z \in Zones : job'.step[z] # "done" => z \in job'.zones
    <3>1. /\ job'.zones = {z \in opened : IsDirty(z)}
          /\ \A z \in Zones : job'.step[z] # "done" => z \in opened /\ IsDirty(z)
      BY <1>1, JobStarts DEF Starts
    <3>2. QED BY <3>1
  <2>3. QED BY <2>1, <2>2 DEF NSInv, ServedSerialHasNS
<1>2. CASE Opens \/ Goes
  BY <1>2 DEF Opens, Goes, redis, NSInv, ServedSerialHasNS
<1>3. CASE Crash
  <2>1. cut' = cut \cup (job.zones \X {job.serial}) /\ job' = NoJob
        /\ UNCHANGED <<latest, nsrecs>>
    BY <1>3 DEF Crash, redis
  <2>2. QED BY <2>1 DEF NSInv, ServedSerialHasNS, NoJob
<1>4. CASE CommitStep
  <2>0. job \in Jobs /\ UNCHANGED cut
    BY <1>4, <1>t, AgeTypes DEF CommitStep, PushRemoves, PushAdds, CommitName, PushAll,
         SetLatest, SaveNSRecords, StartVMRecords, SaveVMRecord, FinishCommit, CommitUnchanged
  <2>1. ASSUME NEW z \in Zones, PushRemoves(z) \/ PushAdds(z) \/ PushAll(z) PROVE NSInv'
    <3>1. PICK s : job' = [job EXCEPT !.step[z] = s]
      BY <2>1 DEF PushRemoves, PushAdds, PushAll
    <3>2. job.step[z] # "done" /\ UNCHANGED <<latest, nsrecs>>
      BY <2>1 DEF PushRemoves, PushAdds, PushAll
    <3>3. QED BY <1>t, <2>0, <3>1, <3>2, JobMoves DEF NSInv, ServedSerialHasNS, SameJob
  <2>2. ASSUME NEW z \in Zones, SetLatest(z) PROVE NSInv'
    <3>1. /\ UNCHANGED nsrecs /\ job.step[z] = "latest"
          /\ latest'[z] = job.serial /\ \A y \in Zones \ {z} : latest'[y] = latest[y]
      BY <1>t, <2>2 DEF SetLatest, TypeOK
    <3>2. /\ SameJob /\ job'.zones = job.zones
          /\ job'.step[z] = "done"
          /\ \A y \in Zones \ {z} : job'.step[y] = job.step[y]
      BY <1>t, <2>2, JobMoves DEF SetLatest
    <3>3. z \in job.zones
      BY <3>1 DEF NSInv
    <3>4. QED BY <2>0, <3>1, <3>2, <3>3 DEF NSInv, ServedSerialHasNS, SameJob
  <2>3. CASE \/ \E z \in Zones, n \in Names : CommitName(z, n)
             \/ StartVMRecords \/ \E v \in VMs : SaveVMRecord(v)
    <3>1. job'.zones = job.zones /\ UNCHANGED nsrecs
      BY <2>0, <2>3 DEF CommitName, StartVMRecords, SaveVMRecord, redis, Jobs
    <3>2. SameJob /\ job'.step = job.step /\ UNCHANGED latest
      BY <1>t, <2>3, JobKeeps
    <3>3. QED BY <2>0, <3>1, <3>2 DEF NSInv, ServedSerialHasNS, SameJob
  <2>4. ASSUME NEW z \in Zones, SaveNSRecords(z) PROVE NSInv'
    <3>1. /\ job'.zones = job.zones \ {z} /\ nsrecs' = nsrecs \cup {<<z, job.serial>>}
          /\ job.stage = "vms"
      BY <2>0, <2>4 DEF SaveNSRecords, VMRecordsSaved, Jobs
    <3>2. SameJob /\ job'.step = job.step /\ UNCHANGED latest
      BY <1>t, <2>4, JobKeeps
    <3>3. \A y \in Zones : job'.step[y] = "done"
      BY <1>t, <3>1, <3>2 DEF SafeInv, JobProgress
    <3>4. QED BY <2>0, <3>1, <3>2, <3>3 DEF NSInv, ServedSerialHasNS, SameJob
  <2>5. CASE FinishCommit
    <3>1. job' = NoJob /\ job.zones = {} /\ UNCHANGED <<latest, nsrecs>>
      BY <2>5 DEF FinishCommit, redis
    <3>2. QED BY <2>0, <3>1 DEF NSInv, ServedSerialHasNS, NoJob
  <2>6. QED BY <1>4, <2>1, <2>2, <2>3, <2>4, <2>5 DEF CommitStep
<1>5. QED BY <1>1, <1>2, <1>3, <1>4, StepKinds

(* The serial a zone announces has its NS records once the commit that     *)
(* announced it is over (update-stream.js, the barrier before saveNSRecords): *)
(* for serials that come twice too, and after crashes, but for the commit  *)
(* that a crash cut short.                                                 *)
THEOREM ServedSerialsHaveNS == Spec => []ServedSerialHasNS
<1>1. SafeInv /\ NSInv /\ [Next]_vars => NSInv'
  BY NSStep
<1>2. Init => NSInv
  BY DEF Init, NSInv, ServedSerialHasNS, NoJob
<1>3. NSInv => ServedSerialHasNS
  BY DEF NSInv
<1>4. QED BY <1>1, <1>2, <1>3, SafeInit, SafeStep, PTL DEF Spec

-----------------------------------------------------------------------------
(* Who waits for a serial to be closed.  While nothing crashes it is open, *)
(* being committed, or finished.                                           *)

Taken(s) == s \in finished \/ (job.stage # "none" /\ s = job.serial)

ReportInv ==
    /\ crashes = 0 /\ \A s \in reported : Taken(s)
    /\ timer # 0 => serial # NoSerial
    /\ \A w \in Listeners : w.kind = "close" =>
         w.serial # NoSerial /\ (w.serial = serial \/ Taken(w.serial))

TakenNext(s) == s \in finished' \/ (job'.stage # "none" /\ s = job'.serial)

(* What is taken stays taken, and a serial that is closed is taken.        *)
LEMMA TakenStep ==
    ASSUME SafeInv, [Next]_vars, ~ Crash
    PROVE  /\ \A s : Taken(s) => TakenNext(s)
           /\ serial # NoSerial => serial' = serial \/ TakenNext(serial)
           /\ (timer # 0 => serial # NoSerial) => (timer' # 0 => serial' # NoSerial)
<1>1. CASE Starts
  <2>1. job.stage = "none" /\ UNCHANGED finished
    BY <1>1 DEF Starts, SafeInv, Lock
  <2>2. job'.serial = serial /\ job'.stage = "zones" /\ timer' = 0
    BY <1>1, JobStarts DEF Starts, StartCommit
  <2>3. TakenNext(serial) /\ \A s : Taken(s) => TakenNext(s)
    BY <2>1, <2>2 DEF Taken, TakenNext
  <2>4. QED BY <2>2, <2>3
<1>2. CASE Opens
  <2>1. now + 1 # NoSerial
    BY DEF SafeInv, TypeOK, NoSerial
  <2>2. QED BY <1>2, <2>1 DEF Opens, OpenSerial, NextSerial, Taken, TakenNext
<1>3. CASE Goes
  BY <1>3 DEF Goes, Taken, TakenNext
<1>4. CASE CommitStep
  <2>1. UNCHANGED <<serial, timer>> /\ job.stage # "none" /\ TypeOK /\ job \in Jobs
    BY <1>4, CommitKeeps, CommitRuns DEF SafeInv, TypeOK
  <2>2. CASE FinishCommit
    BY <2>1, <2>2 DEF FinishCommit, Taken, TakenNext
  <2>3. CASE ~ FinishCommit
    <3>1. job'.serial = job.serial /\ job'.stage # "none"
      BY <1>4, <2>1, <2>3 DEF CommitStep, PushRemoves, PushAdds, CommitName, PushAll,
           SetLatest, SaveNSRecords, StartVMRecords, SaveVMRecord, Jobs, VMRecordsSaved
    <3>2. UNCHANGED finished
      BY <1>4, <2>3, CommitKeeps DEF CommitUnchanged
    <3>3. QED BY <2>1, <3>1, <3>2 DEF Taken, TakenNext
  <2>4. QED BY <2>2, <2>3
<1>5. QED BY <1>1, <1>2, <1>3, <1>4, StepKinds

(* Who is told: one that waited and finds another serial, or the caller    *)
(* whose commit has come to its end.                                       *)
LEMMA ReportedStep ==
    ASSUME SafeInv, [Next]_vars, NEW s \in reported', s \notin reported
    PROVE  \/ TakenNext(s)
           \/ \E w \in Listeners : w.kind = "close" /\ w.serial # serial /\ s = w.serial
<1> USE DEF memory, redis
<1>1. CASE RunListener
  <2> DEFINE w == Head(turn)
  <2>1. w \in Listeners
    BY <1>1, ListenersOf DEF RunListener, Quiet, SafeInv, TypeOK, Listeners
  <2>2. w.kind = "close" /\ w.serial # serial /\ s = w.serial
    BY <1>1 DEF RunListener
  <2>3. QED BY <2>1, <2>2
<1>2. CASE CommitStep
  <2>1. FinishCommit
    BY <1>2, CommitKeeps DEF CommitUnchanged
  <2>2. QED BY <2>1 DEF FinishCommit, Taken, TakenNext
<1>3. QED
  BY <1>1, <1>2 DEF Next, Tick, PollStart, PollDone, TimerFires, Write, WriteStep,
     FetchLastRecs, RemoveEntries, SetEntries, Crash, vars

LEMMA ReportStep ==
    ASSUME MaxCrashes = 0, SafeInv, ReportInv, [Next]_vars
    PROVE  ReportInv'
<1>0. crashes = 0 /\ ~ Crash
  BY DEF ReportInv, Crash
<1>1. crashes' = 0
  BY <1>0, StepKinds, CommitKeeps DEF Starts, Opens, Goes
<1>2. /\ \A s : Taken(s) => TakenNext(s)
      /\ serial # NoSerial => serial' = serial \/ TakenNext(serial)
      /\ timer' # 0 => serial' # NoSerial
  BY <1>0, TakenStep DEF ReportInv
<1>3. ASSUME NEW w \in Listeners', w.kind = "close"
      PROVE  w.serial # NoSerial /\ (w.serial = serial' \/ TakenNext(w.serial))
  <2>1. CASE w \in Listeners
    <3>1. w.serial # NoSerial /\ (w.serial = serial \/ Taken(w.serial))
      BY <1>3, <2>1 DEF ReportInv
    <3>2. Taken(w.serial) => TakenNext(w.serial)
      BY <1>2
    <3>3. QED BY <1>2, <3>1, <3>2
  <2>2. CASE w \notin Listeners
    <3>1. /\ w.serial = serial /\ serial' = serial
          /\ serial # NoSerial \/ timer # 0
      BY <1>3, <2>2, NewListener
    <3>2. QED BY <3>1 DEF ReportInv
  <2>3. QED BY <2>1, <2>2
<1>4. ASSUME NEW s \in reported' PROVE TakenNext(s)
  <2>1. CASE s \in reported
    BY <1>2, <2>1 DEF ReportInv
  <2>2. CASE \E w \in Listeners : w.kind = "close" /\ w.serial # serial /\ s = w.serial
    BY <1>2, <2>2 DEF ReportInv
  <2>3. QED BY <2>1, <2>2, ReportedStep
<1>5. QED BY <1>1, <1>2, <1>3, <1>4 DEF ReportInv, Taken, TakenNext

(* A caller of closeSerial() that is told a serial is closed               *)
(* (update-stream.js:176) can rely on it: its commit has ended, or runs    *)
(* and nothing can join it.                                                *)
THEOREM ReportedSerialsAreTaken == MaxCrashes = 0 => (Spec => []ReportedIsTaken)
<1> SUFFICES ASSUME MaxCrashes = 0 PROVE Spec => []ReportedIsTaken
  OBVIOUS
<1>1. SafeInv /\ ReportInv /\ [Next]_vars => ReportInv'
  BY ReportStep
<1>2. Init => ReportInv
  BY DEF Init, ReportInv, Listeners
<1>3. ReportInv => ReportedIsTaken
  BY DEF ReportInv, Taken, ReportedIsTaken
<1>4. QED BY <1>1, <1>2, <1>3, SafeInit, SafeStep, PTL DEF Spec

-----------------------------------------------------------------------------
(* The zones as logs.                                                      *)

(* A zone to whose last version no crash has come.                         *)
Sound(z) == LastAfter(z) = crashes

(* What the list from a builder's version to its serial holds of a change  *)
(* as its commit goes on, unless a crash left some of it before; the list  *)
(* from a serial to itself is nobody's.                                    *)
IxfrTo(z) == {e \in ixfr : e.zone = z /\ e.from = job.from[z] /\ e.to = job.serial}

PushedTo(z) ==
    Sound(z) /\ job.from[z] # job.serial =>
        /\ job.step[z] = "remove" => IxfrTo(z) = {}
        /\ job.step[z] = "add" => IxfrTo(z) = Entries(z, "remove", job.rms)
        /\ job.step[z] = "names" =>
             IxfrTo(z) = Entries(z, "remove", job.rms) \cup Entries(z, "add", job.adds)

(* No list leads further than the last version, or the one being committed. *)
ListedTo(z) ==
    \A e \in ixfr : e.zone = z /\ Sound(z) =>
        e.to <= Log!LastSerial(z) \/ (ZoneBegins(z) /\ e.to = job.serial)

IxfrPushed == \A z \in Zones : PushedTo(z) /\ ListedTo(z)

(* A builder starts from the version of its zone that is announced.        *)
FromLatest ==
    /\ busy = "commit" => opened = {}
    /\ \A z \in opened : from[z] = latest[z]
    /\ \A z \in Zones : job.step[z] # "done" => job.from[z] = latest[z]
    /\ \A z \in Zones : job.step[z] = "latest" =>
         all[z] # <<>> /\ Log!LastSerial(z) = job.serial

LastWas(z) == IF all[z] = <<>> THEN {} ELSE all[z][Len(all[z])].was

(* Name by name a zone goes from its last version to the one that is being *)
(* committed.                                                              *)
NameDone(r) == ZoneBegins(r.zone) /\ <<r.zone, r.name>> \notin job.names

ContentIs(r) == IF NameDone(r)
                  THEN (r \in LastWas(r.zone) /\ r \notin job.rms) \/ r \in job.adds
                  ELSE r \in LastWas(r.zone)

VersionOf(z) ==
    /\ LastAfter(z) <= crashes
    /\ \A r \in LastWas(z) : r.zone = z
    /\ Sound(z) => /\ job.step[z] # "latest" => latest[z] = Log!LastSerial(z)
                   /\ \A r \in Records : r.zone = z => (r \in content <=> ContentIs(r))

ZoneIsVersion == \A z \in Zones : VersionOf(z)

LogInv == IxfrPushed /\ FromLatest /\ ZoneIsVersion

LEMMA RecordFields ==
    ASSUME NEW r \in Records
    PROVE  r.zone \in Zones /\ r.name \in Names
  BY RecordsAssumption

LEMMA LastTypes ==
    ASSUME TypeOK, NEW z \in Zones
    PROVE  LastAfter(z) \in Nat /\ crashes \in Nat /\ LastWas(z) \subseteq Records
<1>1. all[z] # <<>> => all[z][Len(all[z])] \in Versions
  BY AgeTypes
<1>2. QED BY <1>1 DEF LastAfter, LastWas, Versions, TypeOK

LEMMA SameLast ==
    ASSUME NEW z, all'[z] = all[z]
    PROVE  /\ LastWas(z)' = LastWas(z) /\ Log!LastSerial(z)' = Log!LastSerial(z)
           /\ LastAfter(z)' = LastAfter(z)
  BY DEF LastWas, Log!LastSerial, LastAfter

LEMMA SameIxfr ==
    ASSUME NEW z \in Zones, PushedTo(z), ListedTo(z), SameJob,
           crashes' = crashes, all'[z] = all[z],
           \A e : e.zone = z => (e \in ixfr' <=> e \in ixfr),
           \/ job'.step[z] = job.step[z]
           \/ job.step[z] = "latest" /\ job'.step[z] = "done"
    PROVE  PushedTo(z)' /\ ListedTo(z)'
<1>1. /\ Log!LastSerial(z)' = Log!LastSerial(z) /\ (Sound(z)' <=> Sound(z))
      /\ ZoneBegins(z)' <=> ZoneBegins(z)
  BY SameLast DEF Sound, ZoneBegins
<1>2. /\ Entries(z, "remove", job.rms)' = Entries(z, "remove", job.rms)
      /\ Entries(z, "add", job.adds)' = Entries(z, "add", job.adds)
  BY DEF Entries, SameJob
<1>3. IxfrTo(z)' = IxfrTo(z)
  BY DEF IxfrTo, SameJob
<1>4. job'.step[z] \in {"remove", "add", "names"} => job'.step[z] = job.step[z]
  OBVIOUS
<1>5. PushedTo(z)'
  BY <1>1, <1>2, <1>3, <1>4 DEF PushedTo, SameJob
<1>6. ListedTo(z)'
  BY <1>1 DEF ListedTo, SameJob
<1>7. QED BY <1>5, <1>6

LEMMA SameContent ==
    ASSUME NEW r, SameJob, all'[r.zone] = all[r.zone], NameDone(r)' <=> NameDone(r)
    PROVE  ContentIs(r)' <=> ContentIs(r)
  BY SameLast DEF ContentIs, SameJob

(* What of a step a zone's version depends on.                             *)
LEMMA SameVersion ==
    ASSUME NEW z \in Zones, VersionOf(z), crashes' = crashes,
           all'[z] = all[z], latest'[z] = latest[z],
           job'.step[z] # "latest" => job.step[z] # "latest",
           \A r \in Records : r.zone = z => (r \in content' <=> r \in content),
           \A r \in Records : r.zone = z => (ContentIs(r)' <=> ContentIs(r))
    PROVE  VersionOf(z)'
<1>1. /\ LastWas(z)' = LastWas(z) /\ Log!LastSerial(z)' = Log!LastSerial(z)
      /\ LastAfter(z)' = LastAfter(z)
  BY SameLast
<1>2. Sound(z)' <=> Sound(z)
  BY <1>1 DEF Sound
<1>3. LastAfter(z)' <= crashes' /\ \A r \in LastWas(z)' : r.zone = z
  BY <1>1 DEF VersionOf
<1>4. Sound(z)' /\ job'.step[z] # "latest" => latest'[z] = Log!LastSerial(z)'
  BY <1>1, <1>2 DEF VersionOf
<1>5. ASSUME Sound(z)', NEW r \in Records, r.zone = z
      PROVE  r \in content' <=> ContentIs(r)'
  <2>1. r \in content <=> ContentIs(r)
    BY <1>2, <1>5 DEF VersionOf
  <2>2. (r \in content' <=> r \in content) /\ (ContentIs(r)' <=> ContentIs(r))
    BY <1>5
  <2>3. QED BY <2>1, <2>2
<1>6. QED BY <1>3, <1>4, <1>5 DEF VersionOf

LEMMA StartLog ==
    ASSUME AgeInv, LogInv, Starts
    PROVE  LogInv'
<1>0. serial # NoSerial
  BY DueSerial DEF Starts, NoSerial
<1>1. /\ job.stage = "none" /\ job = NoJob /\ \A z \in Zones : job.step[z] = "done"
  BY DEF Starts, AgeInv, SafeInv, Lock, NoJob
<1>2. /\ UNCHANGED <<crashes, content, latest, all, ixfr>>
      /\ opened' = {} /\ busy' = "commit"
  BY DEF Starts, StartCommit, redis
<1>3. /\ job'.serial = serial /\ job'.from = from /\ job'.rms = rms /\ job'.adds = adds
      /\ job'.names = {<<r.zone, r.name>> : r \in rms \cup adds}
      /\ job'.step = [z \in Zones |-> IF z \in opened /\ IsDirty(z)
                                        THEN "remove" ELSE "done"]
  BY JobStarts DEF Starts
<1>4. \A z \in Zones : /\ job'.step[z] \in {"remove", "done"}
                       /\ job'.step[z] = "remove" => z \in opened
  BY <1>3
<1>5. ASSUME NEW z \in Zones PROVE PushedTo(z)' /\ ListedTo(z)'
  <2>1. /\ Log!LastSerial(z)' = Log!LastSerial(z) /\ (Sound(z)' <=> Sound(z))
        /\ serial \in Nat /\ latest[z] \in Nat /\ ~ZoneBegins(z) /\ TypeOK
    BY <1>1, <1>2, SameLast, AgeTypes DEF Sound, ZoneBegins, AgeInv, SafeInv
  <2>2. \A e \in ixfr : e.zone = z /\ Sound(z) => e.to <= Log!LastSerial(z) /\ e.to \in Nat
    BY <2>1, AgeTypes DEF LogInv, IxfrPushed, ListedTo
  <2>3. ASSUME Sound(z), job'.step[z] = "remove", job'.from[z] # job'.serial
        PROVE  IxfrTo(z)' = {}
    <3>1. from[z] = latest[z] /\ latest[z] = Log!LastSerial(z)
      BY <1>1, <1>4, <2>3 DEF LogInv, FromLatest, ZoneIsVersion, VersionOf
    <3>2. latest[z] <= serial
      BY <1>0 DEF AgeInv, SerialsUsed, NotAhead
    <3>3. latest[z] < serial
      BY <1>3, <2>1, <2>3, <3>1, <3>2
    <3>4. \A e \in ixfr : e.zone = z => e.to # serial
      BY <2>1, <2>2, <2>3, <3>1, <3>3
    <3>5. QED BY <1>2, <1>3, <3>4 DEF IxfrTo
  <2>4. PushedTo(z)'
    BY <1>4, <2>1, <2>3 DEF PushedTo
  <2>5. ListedTo(z)'
    BY <1>2, <2>1, <2>2 DEF ListedTo
  <2>6. QED BY <2>4, <2>5
<1>6. FromLatest'
  BY <1>2, <1>3, <1>4 DEF LogInv, FromLatest
<1>7. ZoneIsVersion'
  <2> SUFFICES ASSUME NEW z \in Zones PROVE VersionOf(z)'
    BY DEF ZoneIsVersion
  <2>1. /\ LastWas(z)' = LastWas(z) /\ Log!LastSerial(z)' = Log!LastSerial(z)
        /\ LastAfter(z)' = LastAfter(z)
    BY <1>2, SameLast
  <2>2. VersionOf(z) /\ job.step[z] = "done"
    BY <1>1 DEF LogInv, ZoneIsVersion
  <2>3. ASSUME NEW r \in Records, r.zone = z, Sound(z) PROVE r \in content' <=> ContentIs(r)'
    <3>1. r \in content <=> r \in LastWas(z)
      BY <2>2, <2>3 DEF VersionOf, ContentIs, NameDone, ZoneBegins
    <3>2. <<r.zone, r.name>> \notin job'.names => r \notin rms \cup adds
      BY <1>3
    <3>3. QED BY <1>2, <1>3, <2>1, <2>3, <3>1, <3>2 DEF ContentIs, NameDone
  <2>4. QED BY <1>2, <2>1, <2>2, <2>3 DEF VersionOf, Sound
<1>8. QED BY <1>5, <1>6, <1>7 DEF LogInv, IxfrPushed

(* Builders come and go, redis and the job stay as they are.               *)
LEMMA KeepsVersions ==
    ASSUME LogInv, UNCHANGED <<crashes, content, latest, all, ixfr, job>>
    PROVE  IxfrPushed' /\ ZoneIsVersion'
<1>1. IxfrPushed'
  BY SameIxfr DEF LogInv, IxfrPushed, SameJob
<1>2. ZoneIsVersion'
  <2>1. \A r \in Records : ContentIs(r)' <=> ContentIs(r)
    BY SameContent DEF NameDone, ZoneBegins, SameJob
  <2>2. QED BY <2>1, SameVersion DEF LogInv, ZoneIsVersion
<1>3. QED BY <1>1, <1>2

LEMMA OpenGoLog ==
    ASSUME AgeInv, LogInv, TypeOK', Opens \/ Goes
    PROVE  LogInv'
<1>1. UNCHANGED <<crashes, content, latest, all, ixfr, job>>
  BY DEF Opens, Goes, redis
<1>2. IxfrPushed' /\ ZoneIsVersion'
  BY <1>1, KeepsVersions
<1>3. /\ busy' = "commit" => opened' = {}
      /\ \A z \in opened' : from'[z] = latest[z]
  <2>1. CASE Opens
    BY <2>1 DEF Opens, OpenSerial, LogInv, FromLatest
  <2>2. CASE Goes /\ UNCHANGED <<opened, from>>
    BY <2>2 DEF Goes, LogInv, FromLatest
  <2>3. CASE Goes /\ busy = "write" /\ \E Z : OpenZones(Z)
    <3>1. PICK Z : OpenZones(Z)
      BY <2>3
    <3>2. opened' \subseteq Zones
      BY DEF TypeOK
    <3>3. QED BY <2>3, <3>1, <3>2 DEF Goes, OpenZones, LogInv, FromLatest
  <2>4. QED BY <2>1, <2>2, <2>3 DEF Goes
<1>4. FromLatest'
  BY <1>1, <1>3 DEF LogInv, FromLatest, Log!LastSerial
<1>5. QED BY <1>2, <1>4 DEF LogInv

LEMMA CrashLog ==
    ASSUME AgeInv, LogInv, Crash
    PROVE  LogInv'
<1>1. /\ opened' = {} /\ busy' = "idle" /\ \A z \in Zones : job'.step[z] = "done"
  BY DEF Crash, NoJob
<1>2. ASSUME NEW z \in Zones PROVE VersionOf(z)'
  <2>1. LastAfter(z) \in Nat /\ crashes \in Nat /\ LastAfter(z) <= crashes
    BY LastTypes DEF AgeInv, SafeInv, LogInv, ZoneIsVersion, VersionOf
  <2>2. crashes' = crashes + 1 /\ all' = all
    BY DEF Crash, redis
  <2>3. LastWas(z)' = LastWas(z) /\ LastAfter(z)' = LastAfter(z)
    BY <2>2, SameLast
  <2>4. QED BY <2>1, <2>2, <2>3 DEF LogInv, ZoneIsVersion, VersionOf, Sound
<1>3. ASSUME NEW z \in Zones PROVE ~Sound(z)'
  <2>1. LastAfter(z) \in Nat /\ crashes \in Nat /\ LastAfter(z) <= crashes
    BY LastTypes DEF AgeInv, SafeInv, LogInv, ZoneIsVersion, VersionOf
  <2>2. crashes' = crashes + 1 /\ LastAfter(z)' = LastAfter(z)
    BY SameLast DEF Crash, redis
  <2>3. QED BY <2>1, <2>2 DEF Sound
<1>4. IxfrPushed'
  BY <1>3 DEF IxfrPushed, PushedTo, ListedTo
<1>5. QED BY <1>1, <1>2, <1>4 DEF LogInv, FromLatest, ZoneIsVersion

(* A list is pushed: it joins the entries to the serial of the job.        *)
LEMMA PushLog ==
    ASSUME AgeInv, LogInv, CommitStep, NEW z \in Zones, PushRemoves(z) \/ PushAdds(z)
    PROVE  LogInv'
<1>0. TypeOK /\ busy = "commit"
  BY CommitRuns DEF AgeInv, SafeInv
<1>1. PICK s \in {"add", "names"} : job' = [job EXCEPT !.step[z] = s]
  BY DEF PushRemoves, PushAdds
<1>2. /\ SameJob /\ job'.names = job.names
      /\ job'.step[z] = s /\ \A y \in Zones \ {z} : job'.step[y] = job.step[y]
  BY <1>0, <1>1, JobMoves
<1>3. /\ UNCHANGED <<crashes, content, latest, all, opened, from, busy>>
      /\ job.step[z] \in {"remove", "add"}
  BY DEF PushRemoves, PushAdds, CommitUnchanged
<1>4. IxfrPushed'
  <2>1. ASSUME NEW y \in Zones, y # z PROVE PushedTo(y)' /\ ListedTo(y)'
    <3>1. \A e \in ixfr' : e \in ixfr \/ e.zone = z
      BY DEF PushRemoves, PushAdds, Entries
    <3>2. ixfr \subseteq ixfr'
      BY DEF PushRemoves, PushAdds
    <3>3. \A e : e.zone = y => (e \in ixfr' <=> e \in ixfr)
      BY <2>1, <3>1, <3>2
    <3>4. QED BY <1>2, <1>3, <2>1, <3>3, SameIxfr DEF LogInv, IxfrPushed
  <2>2. ASSUME NEW op, NEW R, ixfr' = ixfr \cup Entries(z, op, R)
        PROVE  IxfrTo(z)' = IxfrTo(z) \cup Entries(z, op, R)
    <3>1. \A e \in Entries(z, op, R) :
            e.zone = z /\ e.from = job.from[z] /\ e.to = job.serial
      BY DEF Entries
    <3>2. QED BY <1>2, <2>2, <3>1 DEF IxfrTo, SameJob
  <2>e. /\ Entries(z, "remove", job.rms)' = Entries(z, "remove", job.rms)
        /\ Entries(z, "add", job.adds)' = Entries(z, "add", job.adds)
    BY <1>2 DEF Entries, SameJob
  <2>l. Log!LastSerial(z)' = Log!LastSerial(z) /\ (Sound(z)' <=> Sound(z))
    BY <1>3, SameLast DEF Sound
  <2>3. ASSUME PushRemoves(z) PROVE PushedTo(z)'
    <3>1. job.step[z] = "remove" /\ job'.step[z] = "add"
      BY <1>0, <2>3, JobMoves DEF PushRemoves
    <3>2. IxfrTo(z)' = IxfrTo(z) \cup Entries(z, "remove", job.rms)
      BY <2>2, <2>3 DEF PushRemoves
    <3>3. QED BY <1>2, <2>e, <2>l, <3>1, <3>2 DEF LogInv, IxfrPushed, PushedTo, SameJob
  <2>4. ASSUME PushAdds(z) PROVE PushedTo(z)'
    <3>1. job.step[z] = "add" /\ job'.step[z] = "names"
      BY <1>0, <2>4, JobMoves DEF PushAdds
    <3>2. IxfrTo(z)' = IxfrTo(z) \cup Entries(z, "add", job.adds)
      BY <2>2, <2>4 DEF PushAdds
    <3>3. QED BY <1>2, <2>e, <2>l, <3>1, <3>2 DEF LogInv, IxfrPushed, PushedTo, SameJob
  <2>5. ListedTo(z)'
    <3>1. \A e \in ixfr' : e \in ixfr \/ e.to = job.serial
      BY DEF PushRemoves, PushAdds, Entries
    <3>2. ZoneBegins(z) /\ ZoneBegins(z)' /\ job'.serial = job.serial
      BY <1>2, <1>3 DEF ZoneBegins, SameJob
    <3>3. QED BY <2>l, <3>1, <3>2 DEF LogInv, IxfrPushed, ListedTo
  <2>6. PushedTo(z)'
    BY <2>3, <2>4
  <2>7. QED BY <2>1, <2>5, <2>6 DEF IxfrPushed
<1>5. FromLatest'
  BY <1>2, <1>3 DEF LogInv, FromLatest, SameJob, Log!LastSerial
<1>6. ZoneIsVersion'
  <2>1. \A y \in Zones : ZoneBegins(y)' <=> ZoneBegins(y)
    BY <1>2, <1>3 DEF ZoneBegins
  <2>2. \A r \in Records : ContentIs(r)' <=> ContentIs(r)
    BY <1>2, <1>3, <2>1, RecordFields, SameContent DEF NameDone
  <2>3. \A y \in Zones : job'.step[y] # "latest" => job.step[y] # "latest"
    BY <1>2, <1>3
  <2>4. QED BY <1>3, <2>2, <2>3, SameVersion DEF LogInv, ZoneIsVersion
<1>7. QED BY <1>4, <1>5, <1>6 DEF LogInv

(* A name is rewritten, in redis.                                          *)
LEMMA NameLog ==
    ASSUME AgeInv, LogInv, CommitStep,
           NEW z \in Zones, NEW n \in Names, CommitName(z, n)
    PROVE  LogInv'
<1>0. TypeOK /\ job \in Jobs /\ busy = "commit"
  BY CommitRuns DEF AgeInv, SafeInv, TypeOK
<1>1. /\ SameJob /\ job'.step = job.step /\ UNCHANGED <<crashes, opened, from, latest, all, ixfr>>
      /\ job.step[z] = "names"
  BY <1>0, JobKeeps DEF CommitName
<1>2. /\ job'.names = job.names \ {<<z, n>>} /\ <<z, n>> \in job.names
      /\ content' = (content \ Under(job.rms, z, n)) \cup Under(job.adds, z, n)
      /\ busy' = busy
  BY <1>0 DEF CommitName, Jobs, CommitUnchanged
<1>3. IxfrPushed'
  BY <1>1, SameIxfr DEF LogInv, IxfrPushed
<1>4. FromLatest'
  BY <1>1, <1>2 DEF LogInv, FromLatest, SameJob, Log!LastSerial
<1>5. ZoneIsVersion'
  <2> SUFFICES ASSUME NEW y \in Zones PROVE VersionOf(y)'
    BY DEF ZoneIsVersion
  <2>1. VersionOf(y) /\ LastWas(y)' = LastWas(y)
    BY <1>1, SameLast DEF LogInv, ZoneIsVersion
  <2>2. ASSUME NEW r \in Records, r.zone = y, r \in content <=> ContentIs(r)
        PROVE  r \in content' <=> ContentIs(r)'
    <3>1. CASE r.zone = z /\ r.name = n
      <4>1. ~NameDone(r) /\ NameDone(r)'
        BY <1>1, <1>2, <3>1 DEF NameDone, ZoneBegins
      <4>2. r \in content <=> r \in LastWas(r.zone)
        BY <2>2, <4>1 DEF ContentIs
      <4>3. r \in content' <=> (r \in content /\ r \notin job.rms) \/ r \in job.adds
        BY <1>2, <3>1 DEF Under
      <4>4. QED BY <1>1, <2>1, <2>2, <4>1, <4>2, <4>3 DEF ContentIs, SameJob
    <3>2. CASE ~(r.zone = z /\ r.name = n)
      <4>1. NameDone(r)' <=> NameDone(r)
        BY <1>1, <1>2, <3>2 DEF NameDone, ZoneBegins
      <4>2. r \in content' <=> r \in content
        BY <1>2, <3>2 DEF Under
      <4>3. QED BY <1>1, <2>2, <4>1, <4>2, SameContent
    <3>3. QED BY <3>1, <3>2
  <2>3. QED BY <1>1, <2>1, <2>2, SameLast DEF VersionOf, Sound
<1>6. QED BY <1>3, <1>4, <1>5 DEF LogInv

(* All names of a zone rewritten, redis holds what the change makes of the *)
(* last version.                                                           *)
LEMMA ZoneWhole ==
    ASSUME AgeInv, LogInv, NEW z \in Zones, PushAll(z), Sound(z)
    PROVE  InZone(content, z) = (LastWas(z) \ InZone(job.rms, z)) \cup InZone(job.adds, z)
<1>1. /\ job.step[z] = "names" /\ ~ \E n \in Names : <<z, n>> \in job.names
  BY DEF PushAll
<1>2. content \subseteq Records /\ job.adds \subseteq Records
  BY DEF AgeInv, SafeInv, TypeOK, Jobs
<1>3. LastWas(z) \subseteq Records
  BY LastTypes DEF AgeInv, SafeInv
<1>4. VersionOf(z)
  BY DEF LogInv, ZoneIsVersion
<1>5. ASSUME NEW r \in Records, r.zone = z
      PROVE  r \in content <=> (r \in LastWas(z) /\ r \notin job.rms) \/ r \in job.adds
  <2>1. NameDone(r)
    BY <1>1, <1>5, RecordFields DEF NameDone, ZoneBegins
  <2>2. r \in content <=> ContentIs(r)
    BY <1>4, <1>5 DEF VersionOf
  <2>3. QED BY <1>5, <2>1, <2>2 DEF ContentIs
<1>6. QED BY <1>2, <1>3, <1>4, <1>5 DEF InZone, VersionOf

LEMMA AllLog ==
    ASSUME AgeInv, LogInv, CommitStep, NEW z \in Zones, PushAll(z)
    PROVE  LogInv'
<1>0. TypeOK /\ busy = "commit"
  BY CommitRuns DEF AgeInv, SafeInv
<1>1. /\ SameJob /\ job'.names = job.names
      /\ job'.step[z] = "latest" /\ \A y \in Zones \ {z} : job'.step[y] = job.step[y]
  BY <1>0, JobMoves DEF PushAll
<1>2. /\ UNCHANGED <<crashes, content, latest, ixfr, opened, from, busy>>
      /\ job.step[z] = "names"
  BY DEF PushAll, CommitUnchanged
<1>3. /\ all'[z] # <<>> /\ LastWas(z)' = InZone(content, z)
      /\ Log!LastSerial(z)' = job.serial /\ LastAfter(z)' = crashes
  <2>1. /\ Len(all'[z]) = Len(all[z]) + 1 /\ all'[z][Len(all[z]) + 1] = NewVersion(z)
        /\ all[z] \in Seq(Versions)
    BY <1>0, AllPushed
  <2>2. all'[z] # <<>> /\ all'[z][Len(all'[z])] = NewVersion(z)
    BY <2>1
  <2>3. QED BY <2>2 DEF LastWas, Log!LastSerial, LastAfter, NewVersion
<1>4. \A y \in Zones \ {z} : all'[y] = all[y] /\ Log!LastSerial(y)' = Log!LastSerial(y)
  BY <1>0, AllPushed, SameLast
<1>5. IxfrPushed'
  <2>1. \A y \in Zones \ {z} : PushedTo(y)' /\ ListedTo(y)'
    BY <1>1, <1>2, <1>4, SameIxfr DEF LogInv, IxfrPushed
  <2>2. PushedTo(z)'
    BY <1>1 DEF PushedTo
  <2>3. \A e \in ixfr : e.to <= job.serial
    BY CommitRuns DEF AgeInv, SafeInv, SerialsUsed, NotAhead
  <2>4. ListedTo(z)'
    BY <1>2, <1>3, <2>3 DEF ListedTo
  <2>5. QED BY <2>1, <2>2, <2>4 DEF IxfrPushed
<1>6. FromLatest'
  <2>1. \A y \in Zones : job'.step[y] # "done" => job.step[y] # "done"
    BY <1>1, <1>2
  <2>2. \A y \in Zones : job'.step[y] = "latest" =>
          all'[y] # <<>> /\ Log!LastSerial(y)' = job'.serial
    BY <1>1, <1>3, <1>4 DEF LogInv, FromLatest, SameJob
  <2>3. QED BY <1>1, <1>2, <2>1, <2>2 DEF LogInv, FromLatest, SameJob
<1>7. ZoneIsVersion'
  <2>1. ASSUME NEW y \in Zones \ {z} PROVE VersionOf(y)'
    <3>1. VersionOf(y) /\ all'[y] = all[y] /\ job'.step[y] = job.step[y]
      BY <1>1, <1>4 DEF LogInv, ZoneIsVersion
    <3>2. \A r \in Records : r.zone = y => (ContentIs(r)' <=> ContentIs(r))
      BY <1>1, <3>1, SameContent DEF NameDone, ZoneBegins
    <3>3. QED BY <1>2, <3>1, <3>2, SameVersion
  <2>2. VersionOf(z)'
    <3>1. \A r \in Records : r.zone = z => (r \in content' <=> ContentIs(r)')
      BY <1>1, <1>2, <1>3 DEF ContentIs, NameDone, ZoneBegins, InZone
    <3>2. crashes' \in Nat /\ \A r \in LastWas(z)' : r.zone = z
      BY <1>0, <1>2, <1>3 DEF InZone, TypeOK
    <3>3. QED BY <1>1, <1>2, <1>3, <3>1, <3>2 DEF VersionOf
  <2>3. QED BY <2>1, <2>2 DEF ZoneIsVersion
<1>8. QED BY <1>5, <1>6, <1>7 DEF LogInv

LEMMA LatestLog ==
    ASSUME AgeInv, LogInv, CommitStep, NEW z \in Zones, SetLatest(z)
    PROVE  LogInv'
<1>0. TypeOK /\ busy = "commit"
  BY CommitRuns DEF AgeInv, SafeInv
<1>1. /\ SameJob /\ job'.names = job.names
      /\ job'.step[z] = "done" /\ \A y \in Zones \ {z} : job'.step[y] = job.step[y]
  BY <1>0, JobMoves DEF SetLatest
<1>2. /\ UNCHANGED <<crashes, content, all, ixfr, opened, from, busy>>
      /\ job.step[z] = "latest"
      /\ latest'[z] = job.serial /\ \A y \in Zones \ {z} : latest'[y] = latest[y]
  BY <1>0 DEF SetLatest, CommitUnchanged, TypeOK
<1>3. \A y \in Zones : /\ LastWas(y)' = LastWas(y) /\ LastAfter(y)' = LastAfter(y)
                       /\ Log!LastSerial(y)' = Log!LastSerial(y)
  BY <1>2, SameLast
<1>4. IxfrPushed'
  BY <1>1, <1>2, SameIxfr DEF LogInv, IxfrPushed
<1>5. FromLatest'
  <2>1. opened' = {}
    BY <1>0, <1>2 DEF LogInv, FromLatest
  <2>2. \A y \in Zones : job'.step[y] # "done" => job'.from[y] = latest'[y]
    BY <1>1, <1>2 DEF LogInv, FromLatest, SameJob
  <2>3. \A y \in Zones : job'.step[y] = "latest" =>
          all'[y] # <<>> /\ Log!LastSerial(y)' = job'.serial
    BY <1>1, <1>2, <1>3 DEF LogInv, FromLatest, SameJob
  <2>4. QED BY <2>1, <2>2, <2>3 DEF FromLatest
<1>6. ZoneIsVersion'
  <2>1. latest'[z] = Log!LastSerial(z)'
    BY <1>2, <1>3 DEF LogInv, FromLatest
  <2>2. \A y \in Zones : ZoneBegins(y)' <=> ZoneBegins(y)
    BY <1>1, <1>2 DEF ZoneBegins
  <2>3. \A r \in Records : ContentIs(r)' <=> ContentIs(r)
    BY <1>1, <1>2, <2>2, RecordFields, SameContent DEF NameDone
  <2>4. VersionOf(z)'
    BY <1>2, <1>3, <2>1, <2>3 DEF LogInv, ZoneIsVersion, VersionOf, Sound
  <2>5. \A y \in Zones \ {z} : VersionOf(y)'
    BY <1>1, <1>2, <2>3, SameVersion DEF LogInv, ZoneIsVersion
  <2>6. QED BY <2>4, <2>5 DEF ZoneIsVersion
<1>7. QED BY <1>4, <1>5, <1>6 DEF LogInv

(* The zones are done: the VMs and the NS records follow.                  *)
LEMMA AfterZonesLog ==
    ASSUME AgeInv, LogInv, CommitStep,
           \/ StartVMRecords
           \/ \E v \in VMs : SaveVMRecord(v)
           \/ \E z \in Zones : SaveNSRecords(z)
    PROVE  LogInv'
<1>0. TypeOK /\ job \in Jobs /\ busy = "commit"
  BY CommitRuns DEF AgeInv, SafeInv, TypeOK
<1>1. /\ SameJob /\ job'.step = job.step
      /\ UNCHANGED <<crashes, opened, from, latest, all, ixfr>>
  BY <1>0, JobKeeps
<1>2. UNCHANGED <<busy, content>> /\ job'.names = job.names
  BY <1>0 DEF StartVMRecords, SaveVMRecord, SaveNSRecords, CommitUnchanged, redis, Jobs
<1>3. IxfrPushed'
  BY <1>1, SameIxfr DEF LogInv, IxfrPushed
<1>4. FromLatest'
  BY <1>1, <1>2 DEF LogInv, FromLatest, SameJob, Log!LastSerial
<1>5. ZoneIsVersion'
  <2>1. \A r \in Records : ContentIs(r)' <=> ContentIs(r)
    BY <1>1, <1>2, SameContent DEF NameDone, ZoneBegins
  <2>2. QED BY <1>1, <1>2, <2>1, SameVersion DEF LogInv, ZoneIsVersion
<1>6. QED BY <1>3, <1>4, <1>5 DEF LogInv

LEMMA FinishLog ==
    ASSUME AgeInv, LogInv, FinishCommit
    PROVE  LogInv'
<1>1. /\ job' = NoJob /\ busy' = "idle" /\ job.stage = "vms"
      /\ UNCHANGED <<crashes, content, latest, all, ixfr, opened, from>>
  BY DEF FinishCommit, BusyDone, VMRecordsSaved, redis
<1>2. /\ \A z \in Zones : job.step[z] = "done" /\ job'.step[z] = "done"
  BY <1>1 DEF AgeInv, SafeInv, JobProgress, NoJob
<1>3. \A r \in Records : ContentIs(r)' <=> ContentIs(r)
  BY <1>1, <1>2, RecordFields, SameLast DEF ContentIs, NameDone, ZoneBegins
<1>4. ZoneIsVersion'
  BY <1>1, <1>2, <1>3, SameVersion DEF LogInv, ZoneIsVersion
<1>5. FromLatest'
  BY <1>1, <1>2 DEF LogInv, FromLatest
<1>6. IxfrPushed'
  <2>1. \A z \in Zones : /\ Log!LastSerial(z)' = Log!LastSerial(z) /\ (Sound(z)' <=> Sound(z))
                         /\ ~ZoneBegins(z)
    BY <1>1, <1>2, SameLast DEF Sound, ZoneBegins
  <2>2. \A z \in Zones : PushedTo(z)'
    BY <1>2 DEF PushedTo
  <2>3. \A z \in Zones : ListedTo(z)'
    BY <1>1, <2>1 DEF LogInv, IxfrPushed, ListedTo
  <2>4. QED BY <2>2, <2>3 DEF IxfrPushed
<1>7. QED BY <1>4, <1>5, <1>6 DEF LogInv

LEMMA LogInit == Init => LogInv
<1> SUFFICES ASSUME Init PROVE LogInv
  OBVIOUS
<1>1. /\ \A z \in Zones : job.step[z] = "done" /\ all[z] = <<>> /\ latest[z] = 0
      /\ content = {} /\ opened = {} /\ crashes = 0
  BY DEF Init, NoJob, NoSerial
<1>2. \A z \in Zones : LastWas(z) = {} /\ Log!LastSerial(z) = 0 /\ LastAfter(z) = 0
  BY <1>1 DEF LastWas, Log!LastSerial, LastAfter
<1>3. \A r \in Records : r \notin content /\ ~ContentIs(r)
  BY <1>1, <1>2, RecordFields DEF ContentIs, NameDone, ZoneBegins
<1>4. ZoneIsVersion
  <2> SUFFICES ASSUME NEW z \in Zones PROVE VersionOf(z)
    BY DEF ZoneIsVersion
  <2>1. LastAfter(z) <= crashes
    BY <1>1, <1>2
  <2>2. \A r \in LastWas(z) : r.zone = z
    BY <1>2
  <2>3. latest[z] = Log!LastSerial(z)
    BY <1>1, <1>2
  <2>4. \A r \in Records : r.zone = z => (r \in content <=> ContentIs(r))
    BY <1>3
  <2>5. QED BY <2>1, <2>2, <2>3, <2>4 DEF VersionOf
<1>5. IxfrPushed
  BY <1>1 DEF Init, IxfrPushed, PushedTo, ListedTo
<1>6. QED BY <1>1, <1>4, <1>5 DEF LogInv, FromLatest

LEMMA LogStep ==
    ASSUME AgeInv, LogInv, [Next]_vars
    PROVE  LogInv'
<1>1. TypeOK' /\ SafeInv
  BY StepType DEF AgeInv, SafeInv
<1>2. CASE CommitStep
  <2>1. ASSUME NEW z \in Zones, SetLatest(z) \/ PushAll(z) \/ PushRemoves(z) \/ PushAdds(z)
        PROVE  LogInv'
    BY <1>2, <2>1, LatestLog, AllLog, PushLog
  <2>2. ASSUME NEW z \in Zones, NEW n \in Names, CommitName(z, n) PROVE LogInv'
    BY <1>2, <2>2, NameLog
  <2>3. QED BY <1>2, <2>1, <2>2, AfterZonesLog, FinishLog DEF CommitStep
<1>3. QED BY <1>1, <1>2, StepKinds, StartLog, OpenGoLog, CrashLog

-----------------------------------------------------------------------------
(* The refinement.                                                         *)

Change == [remove : SUBSET Records, add : SUBSET Records]

LEMMA ExtendsBy ==
    ASSUME NEW S, NEW s \in Seq(S), NEW t \in Seq(S), Len(t) = Len(s) + 1,
           \A i \in 1..Len(s) : t[i] = s[i]
    PROVE  Log!Extends(t, s)
<1>1. Len(s) \in Nat /\ 1 <= Len(s) + 1 /\ Len(s) <= Len(t)
  OBVIOUS
<1>2. /\ SubSeq(t, 1, Len(s)) \in Seq(S) /\ Len(SubSeq(t, 1, Len(s))) = Len(s)
      /\ \A i \in 1..Len(s) : SubSeq(t, 1, Len(s))[i] = t[i]
  BY <1>1
<1>3. SubSeq(t, 1, Len(s)) = s
  BY <1>2, SeqEqual
<1>4. QED BY <1>3 DEF Log!Extends

(* The changes of a zone are one fewer than its versions.                  *)
ChangeOf(z, i) ==
    [remove |-> IxfrList(z, all[z][i].serial, all[z][i + 1].serial, "remove"),
     add    |-> IxfrList(z, all[z][i].serial, all[z][i + 1].serial, "add")]

ChangesFit ==
    \A z \in Zones : /\ Changes[z] \in Seq(Change)
                     /\ all[z] # <<>> => Len(Changes[z]) = Len(all[z]) - 1
                     /\ all[z] = <<>> => Changes[z] = <<>>
                     /\ Len(all[z]) = 1 => Changes[z] = <<>>
                     /\ \A i \in 1..(Len(all[z]) - 1) : Changes[z][i] = ChangeOf(z, i)

LEMMA ChangesOf == TypeOK => ChangesFit
<1> SUFFICES ASSUME TypeOK, NEW z \in Zones
             PROVE  /\ Changes[z] \in Seq(Change)
                    /\ all[z] # <<>> => Len(Changes[z]) = Len(all[z]) - 1
                    /\ all[z] = <<>> => Changes[z] = <<>>
                    /\ Len(all[z]) = 1 => Changes[z] = <<>>
                    /\ \A i \in 1..(Len(all[z]) - 1) : Changes[z][i] = ChangeOf(z, i)
  BY DEF ChangesFit
<1> DEFINE n == Len(all[z]) - 1
<1>1. Changes[z] = [i \in 1..n |-> ChangeOf(z, i)]
  BY DEF Changes, ChangeOf
<1>2. \A i : ChangeOf(z, i) \in Change
  <2>1. \A a, b, op : IxfrList(z, a, b, op) \subseteq Records
    BY DEF IxfrList, TypeOK, IxfrEntries
  <2>2. QED BY <2>1 DEF Change, ChangeOf
<1>3. all[z] \in Seq(Versions) /\ n \in Int
  BY AgeTypes
<1>4. all[z] # <<>> => n \in Nat
  BY <1>3
<1>5. all[z] = <<>> => 1..n = {}
  BY <1>3
<1>6. 1..0 = {}
  OBVIOUS
<1> HIDE DEF n
<1>7. 1..n = {} => Changes[z] = <<>>
  BY <1>1
<1>8. n \in Nat => Changes[z] \in Seq(Change) /\ Len(Changes[z]) = n
  BY <1>1, <1>2
<1>9. \A i \in 1..n : Changes[z][i] = ChangeOf(z, i)
  BY <1>1
<1>10. <<>> \in Seq(Change) /\ (Len(all[z]) = 1 => n = 0)
  BY DEF n
<1>11. QED BY <1>3, <1>4, <1>5, <1>6, <1>7, <1>8, <1>9, <1>10 DEF n

LEMMA ChangesNext == TypeOK' => ChangesFit'
  BY ChangesOf, PTL

(* The entries of the serial being committed are the change from the       *)
(* version its builder started from.                                       *)
LEMMA IxfrOf ==
    ASSUME TypeOK, LogInv, NEW z \in Zones, job.step[z] = "names",
           job.from[z] # NoSerial, Sound(z), job.from[z] # job.serial
    PROVE  /\ IxfrList(z, job.from[z], job.serial, "remove") = InZone(job.rms, z)
           /\ IxfrList(z, job.from[z], job.serial, "add") = InZone(job.adds, z)
<1> DEFINE E(op, R) == [zone : {z}, from : {job.from[z]}, to : {job.serial}, op : {op},
                        rec : {r \in R : r.zone = z}]
           F(op) == {f \in ixfr : f.zone = z /\ f.from = job.from[z] /\ f.to = job.serial
                                  /\ f.op = op}
<1>0. Entries(z, "remove", job.rms) = E("remove", job.rms)
      /\ Entries(z, "add", job.adds) = E("add", job.adds)
  BY DEF Entries
<1>1. IxfrTo(z) = E("remove", job.rms) \cup E("add", job.adds)
  <2>1. IxfrTo(z) = Entries(z, "remove", job.rms) \cup Entries(z, "add", job.adds)
    BY DEF LogInv, IxfrPushed, PushedTo
  <2>2. QED BY <1>0, <2>1, Zenon
<1>2. ASSUME NEW op, NEW R
      PROVE  /\ \A e \in E(op, R) : /\ e.zone = z /\ e.from = job.from[z]
                                    /\ e.to = job.serial /\ e.op = op /\ e.rec \in InZone(R, z)
             /\ \A r \in InZone(R, z) : \E e \in E(op, R) : e.rec = r
  <2>1. \A e \in E(op, R) : /\ e.zone = z /\ e.from = job.from[z]
                            /\ e.to = job.serial /\ e.op = op /\ e.rec \in InZone(R, z)
    BY DEF InZone
  <2>2. ASSUME NEW r \in InZone(R, z) PROVE \E e \in E(op, R) : e.rec = r
    <3> DEFINE e == [zone |-> z, from |-> job.from[z], to |-> job.serial, op |-> op, rec |-> r]
    <3>1. e \in E(op, R) /\ e.rec = r
      BY DEF InZone
    <3>2. QED BY <3>1
  <2>3. QED BY <2>1, <2>2
<1>3. \A f : f \in ixfr /\ f.zone = z /\ f.from = job.from[z] /\ f.to = job.serial <=>
             f \in E("remove", job.rms) \/ f \in E("add", job.adds)
  <2>1. \A f : f \in IxfrTo(z) <=>
          f \in ixfr /\ f.zone = z /\ f.from = job.from[z] /\ f.to = job.serial
    BY DEF IxfrTo
  <2>2. QED BY <1>1, <2>1
<1> HIDE DEF E
<1>4. F("remove") = E("remove", job.rms) /\ F("add") = E("add", job.adds)
  BY <1>2, <1>3
<1>5. ASSUME NEW op, NEW R, F(op) = E(op, R)
      PROVE  IxfrList(z, job.from[z], job.serial, op) = InZone(R, z)
  <2>1. IxfrList(z, job.from[z], job.serial, op) = {e.rec : e \in F(op)}
    BY DEF IxfrList
  <2>2. {e.rec : e \in E(op, R)} = InZone(R, z)
    BY <1>2
  <2>3. QED BY <1>5, <2>1, <2>2
<1>6. QED BY <1>4, <1>5

(* What a change says depends on the lists and on two serials.             *)
RecsOf(S, z, a, b, op) ==
    {e.rec : e \in {f \in S : /\ f.zone = z /\ f.from = a /\ f.to = b /\ f.op = op
                              /\ a # b}}

LEMMA ChangeBy ==
    ASSUME NEW z \in Zones, NEW i \in Int
    PROVE  /\ ChangeOf(z, i) =
                [remove |-> RecsOf(ixfr, z, all[z][i].serial, all[z][i + 1].serial, "remove"),
                 add    |-> RecsOf(ixfr, z, all[z][i].serial, all[z][i + 1].serial, "add")]
           /\ ChangeOf(z, i)' =
                [remove |-> RecsOf(ixfr', z, all'[z][i].serial, all'[z][i + 1].serial, "remove"),
                 add    |-> RecsOf(ixfr', z, all'[z][i].serial, all'[z][i + 1].serial, "add")]
  BY DEF ChangeOf, IxfrList, RecsOf

LEMMA SameChange ==
    ASSUME NEW z \in Zones, NEW i \in Int, ixfr' = ixfr,
           all'[z][i] = all[z][i], all'[z][i + 1] = all[z][i + 1]
    PROVE  ChangeOf(z, i)' = ChangeOf(z, i)
  BY ChangeBy

(* The change to a version that is being logged is what its commit did.    *)
LEMMA PublishedChange ==
    ASSUME AgeInv, LogInv, TypeOK', NEW z \in Zones, PushAll(z), Sound(z),
           NEW k \in Nat, k = Len(all[z]), k # 0, Log!LastSerial(z) # job.serial
    PROVE  /\ Changes'[z][k] = [remove |-> InZone(job.rms, z), add |-> InZone(job.adds, z)]
           /\ InZone(content, z) = Log!Apply(all[z][k].was, Changes'[z][k])
<1>0. TypeOK /\ job.step[z] = "names" /\ ixfr' = ixfr
  BY DEF AgeInv, SafeInv, PushAll, CommitUnchanged
<1>1. /\ all[z] \in Seq(Versions) /\ Len(all'[z]) = k + 1
      /\ all'[z][k + 1].serial = job.serial /\ all'[z][k] = all[z][k]
      /\ k \in 1..k /\ k \in 1..((k + 1) - 1) /\ all[z] # <<>>
  <2>1. k \in 1..k /\ k \in 1..((k + 1) - 1)
    OBVIOUS
  <2>2. /\ all[z] \in Seq(Versions) /\ Len(all'[z]) = k + 1
        /\ all'[z][k + 1].serial = job.serial
        /\ \A i \in 1..k : all'[z][i] = all[z][i]
    <3>1. /\ all[z] \in Seq(Versions) /\ Len(all'[z]) = Len(all[z]) + 1
          /\ all'[z][Len(all[z]) + 1] = NewVersion(z)
          /\ \A i \in 1..Len(all[z]) : all'[z][i] = all[z][i]
      BY <1>0, AllPushed
    <3>2. NewVersion(z).serial = job.serial
      BY DEF NewVersion
    <3>3. QED BY <3>1, <3>2
  <2>3. QED BY <2>1, <2>2
<1>2. job.from[z] = all[z][k].serial /\ job.from[z] # job.serial
  BY <1>0, <1>1 DEF LogInv, FromLatest, ZoneIsVersion, VersionOf, Log!LastSerial
<1>3. all[z][k].serial # NoSerial
  BY <1>0, <1>1, AgeTypes DEF AgeInv, SerialsUsed, NoSerial
<1>4. ChangeOf(z, k)' =
        [remove |-> RecsOf(ixfr, z, job.from[z], job.serial, "remove"),
         add    |-> RecsOf(ixfr, z, job.from[z], job.serial, "add")]
  <2>1. ChangeOf(z, k)' =
          [remove |-> RecsOf(ixfr', z, all'[z][k].serial, all'[z][k + 1].serial, "remove"),
           add    |-> RecsOf(ixfr', z, all'[z][k].serial, all'[z][k + 1].serial, "add")]
    BY ChangeBy
  <2>2. all'[z][k].serial = job.from[z] /\ all'[z][k + 1].serial = job.serial
    BY <1>1, <1>2
  <2>3. QED BY <1>0, <2>1, <2>2
<1>5. \A a, b, op : RecsOf(ixfr, z, a, b, op) = IxfrList(z, a, b, op)
  BY DEF RecsOf, IxfrList
<1>6. ChangeOf(z, k)' = [remove |-> InZone(job.rms, z), add |-> InZone(job.adds, z)]
  BY <1>0, <1>2, <1>3, <1>4, <1>5, IxfrOf
<1>7. Changes'[z][k] = ChangeOf(z, k)'
  BY <1>1, ChangesNext DEF ChangesFit
<1>8. LastWas(z) = all[z][k].was
  BY <1>1 DEF LastWas
<1>9. QED BY <1>6, <1>7, <1>8, ZoneWhole DEF Log!Apply

LEMMA SameChanges ==
    ASSUME NEW z \in Zones, ixfr' = ixfr, all'[z] = all[z]
    PROVE  Changes'[z] = Changes[z]
<1> DEFINE C(S, s) == [i \in 1..(Len(s) - 1) |->
                         [remove |-> RecsOf(S, z, s[i].serial, s[i + 1].serial, "remove"),
                          add    |-> RecsOf(S, z, s[i].serial, s[i + 1].serial, "add")]]
<1>1. Changes[z] = C(ixfr, all[z]) /\ Changes'[z] = C(ixfr', all'[z])
  BY DEF Changes, IxfrList, RecsOf
<1> HIDE DEF C
<1>2. QED BY <1>1

LEMMA PublishStep ==
    ASSUME AgeInv, LogInv, TypeOK', NEW z \in Zones, PushAll(z)
    PROVE  Log!Publish(z)
<1> DEFINE new == NewVersion(z)
           k   == Len(all[z])
<1>0. TypeOK /\ job.step[z] = "names" /\ UNCHANGED <<latest, crashes, ixfr>>
  BY DEF AgeInv, SafeInv, PushAll, CommitUnchanged
<1>1. /\ all[z] \in Seq(Versions) /\ all'[z] \in Seq(Versions) /\ k \in Nat
      /\ Len(all'[z]) = k + 1 /\ all'[z][k + 1] = new
      /\ \A i \in 1..k : all'[z][i] = all[z][i]
      /\ \A y \in Zones \ {z} : all'[y] = all[y]
  BY <1>0, AllPushed
<1>2. latest[z] = Log!LastSerial(z) \/ Torn[z]
  BY <1>0 DEF LogInv, ZoneIsVersion, VersionOf, Sound, Torn
<1>3. Log!Extends(all'[z], all[z])
  BY <1>1, ExtendsBy
<1>4. \/ all'[z][k + 1].serial > Log!LastSerial(z)
      \/ Log!Repeats(all'[z]) /\ k > 0
  <2>1. \A i \in 1..k : /\ all[z][i].serial <= job.serial
                        /\ all[z][i].early \/ all[z][i].serial < job.serial
    BY <1>0 DEF AgeInv, SerialsUsed, NotAhead, ZoneBegins, PushAll
  <2>2. k > 0 => k \in 1..k
    BY <1>1
  <2>3. all[z] # <<>> => k > 0
    BY <1>1
  <2>4. job.serial > 0 /\ job.serial \in Nat
    BY <1>0, AgeTypes DEF AgeInv, SerialsDue, PushAll, NoSerial
  <2>5. all'[z][k + 1].serial = job.serial
    BY <1>1 DEF NewVersion
  <2>6. \A i \in 1..k : all[z][i].serial \in Nat
    BY <1>0, AgeTypes
  <2>7. k > 0 => /\ all'[z][k] = all[z][k] /\ (k + 1) - 1 = k /\ k + 1 > 1
                 /\ Len(all'[z]) = k + 1
    BY <1>1, <2>2
  <2>8. CASE k > 0 /\ all[z][k].serial = job.serial
    <3>1. all[z][k].early
      BY <2>1, <2>2, <2>4, <2>8
    <3>2. QED BY <2>5, <2>7, <2>8, <3>1 DEF Log!Repeats
  <2>9. CASE k > 0 /\ all[z][k].serial # job.serial
    <3>1. all[z][k].serial < job.serial
      BY <2>1, <2>2, <2>4, <2>6, <2>9
    <3>2. Log!LastSerial(z) = all[z][k].serial
      BY <1>1, <2>9 DEF Log!LastSerial
    <3>3. QED BY <2>4, <2>5, <2>6, <3>1, <3>2, <2>2, <2>9
  <2>10. CASE k = 0
    BY <1>1, <2>4, <2>5, <2>10 DEF Log!LastSerial
  <2>11. QED BY <1>1, <2>8, <2>9, <2>10
<1>5. k + 1 = 1 => Changes'[z] = <<>>
  <2>1. Len(all'[z]) = 1 => Changes'[z] = <<>>
    BY ChangesNext DEF ChangesFit
  <2>2. QED BY <1>1, <2>1
<1>6. ASSUME k + 1 # 1
      PROVE  /\ Log!Extends(Changes'[z], Changes[z])
             /\ \/ new.was = Log!Apply(all[z][k].was, Changes'[z][k])
                \/ Log!Repeats(all'[z]) \/ Torn[z]
  <2>1. k >= 1 /\ all[z] # <<>> /\ all'[z] # <<>> /\ k \in 1..k
    BY <1>1, <1>6
  <2>2. /\ Changes[z] \in Seq(Change) /\ Changes'[z] \in Seq(Change)
        /\ Len(Changes[z]) = k - 1 /\ Len(Changes'[z]) = (k + 1) - 1
    BY <1>0, <1>1, <2>1, ChangesOf, ChangesNext DEF ChangesFit
  <2>3. \A i \in 1..(k - 1) : Changes'[z][i] = Changes[z][i]
    <3> SUFFICES ASSUME NEW i \in 1..(k - 1) PROVE Changes'[z][i] = Changes[z][i]
      OBVIOUS
    <3>1. i \in 1..k /\ i + 1 \in 1..k /\ i \in 1..((k + 1) - 1)
      BY <1>1
    <3>2. all'[z][i] = all[z][i] /\ all'[z][i + 1] = all[z][i + 1]
      BY <1>1, <3>1
    <3>4. ChangeOf(z, i)' = ChangeOf(z, i)
      BY <1>0, <3>2, SameChange
    <3>5. Changes'[z][i] = ChangeOf(z, i)'
      BY <1>1, <3>1, ChangesNext DEF ChangesFit
    <3>6. Changes[z][i] = ChangeOf(z, i)
      BY <1>0, ChangesOf DEF ChangesFit
    <3>7. QED BY <3>4, <3>5, <3>6
  <2>4. Log!Extends(Changes'[z], Changes[z])
    <3>1. Len(Changes'[z]) = Len(Changes[z]) + 1
      BY <1>1, <2>2
    <3>2. \A i \in 1..Len(Changes[z]) : Changes'[z][i] = Changes[z][i]
      BY <2>2, <2>3
    <3>3. QED BY <2>2, <3>1, <3>2, ExtendsBy
  <2>5. Sound(z) /\ ~Log!Repeats(all'[z]) =>
          new.was = Log!Apply(all[z][k].was, Changes'[z][k])
    <3>1. new.was = InZone(content, z) /\ k \in Nat /\ k # 0
      BY <1>1, <2>1 DEF NewVersion
    <3>2. \A i \in Nat : i = Len(all[z]) /\ i # 0 /\ Sound(z)
                          /\ Log!LastSerial(z) # job.serial =>
            InZone(content, z) = Log!Apply(all[z][i].was, Changes'[z][i])
      BY PublishedChange
    <3>3. ~Log!Repeats(all'[z]) => Log!LastSerial(z) # job.serial
      <4>1. all'[z][k + 1].serial = job.serial /\ job.serial \in Nat
        BY <1>0, <1>1, AgeTypes DEF NewVersion
      <4>2. QED BY <1>4, <4>1
    <3> HIDE DEF new
    <3>4. QED BY <3>1, <3>2, <3>3
  <2>6. Torn[z] <=> ~Sound(z)
    BY DEF Torn, Sound
  <2>7. QED BY <2>4, <2>5, <2>6
<1>7. \A y \in Zones \ {z} : Changes'[y] = Changes[y]
  BY <1>0, <1>1, SameChanges
<1>8. Torn' = [Torn EXCEPT ![z] = FALSE]
  <2>1. LastAfter(z)' = crashes
    <3>1. all'[z] # <<>> /\ all'[z][Len(all'[z])] = NewVersion(z)
      BY <1>1
    <3>2. QED BY <3>1 DEF LastAfter, NewVersion
  <2>2. \A y \in Zones \ {z} : LastAfter(y)' = LastAfter(y)
    BY <1>1, SameLast
  <2>3. \A y \in Zones : (LastAfter(y)' # crashes') = (y # z /\ LastAfter(y) # crashes)
    BY <1>0, <2>1, <2>2
  <2>4. Torn' = [y \in Zones |-> y # z /\ LastAfter(y) # crashes]
    BY <2>3, Zenon DEF Torn
  <2>5. [Torn EXCEPT ![z] = FALSE] = [y \in Zones |-> y # z /\ LastAfter(y) # crashes]
    BY Zenon DEF Torn
  <2>6. QED BY <2>4, <2>5
<1> HIDE DEF new, k
<1>9. QED
  BY <1>0, <1>1, <1>2, <1>3, <1>4, <1>5, <1>6, <1>7, <1>8
     DEF Log!Publish, Log!Others, k, new

LEMMA SameLog ==
    ASSUME \A y \in Zones : Changes'[y] = Changes[y]
    PROVE  Changes' = Changes
<1>1. Changes = [y \in Zones |-> Changes[y]]
  BY DEF Changes
<1>2. Changes' = [y \in Zones |-> Changes'[y]]
  BY DEF Changes
<1>3. QED BY <1>1, <1>2, Zenon

LEMMA SameTorn ==
    ASSUME all' = all, crashes' = crashes
    PROVE  Torn' = Torn
  BY SameLast DEF Torn

LEMMA QuietLog ==
    ASSUME UNCHANGED <<all, ixfr, latest>>
    PROVE  UNCHANGED <<all, Changes, latest>>
<1>1. \A y \in Zones : Changes'[y] = Changes[y]
  BY SameChanges
<1>2. QED BY <1>1, SameLog

(* What is pushed changes no list that leads to a version, but for those    *)
(* of a commit that died, and was early enough to be done again.           *)
LEMMA PushChanges ==
    ASSUME AgeInv, LogInv, NEW z \in Zones, PushRemoves(z) \/ PushAdds(z)
    PROVE  Changes' = Changes \/ Log!Amend(z)
<1> DEFINE n(y) == Len(all[y]) - 1
           leads(y, i) == /\ y = z /\ all[y][i].serial = job.from[z]
                          /\ all[y][i + 1].serial = job.serial
                          /\ job.from[z] # job.serial
<1>0. /\ all' = all /\ latest' = latest /\ crashes' = crashes
      /\ ZoneBegins(z) /\ job.step[z] # "latest" /\ job.step[z] # "done"
      /\ TypeOK /\ job.stage # "none"
      /\ \E op, R : ixfr' = ixfr \cup Entries(z, op, R)
  BY DEF PushRemoves, PushAdds, ZoneBegins, AgeInv, SafeInv, CommitUnchanged
<1>1. PICK N : /\ ixfr' = ixfr \cup N
               /\ \A e \in N : e.zone = z /\ e.from = job.from[z] /\ e.to = job.serial
  <2>1. \A op, R : \A e \in Entries(z, op, R) :
          e.zone = z /\ e.from = job.from[z] /\ e.to = job.serial
    BY DEF Entries
  <2>2. QED BY <1>0, <2>1
<1>2. ASSUME NEW y, NEW a, NEW b, NEW op
      PROVE  /\ RecsOf(ixfr, y, a, b, op) \subseteq RecsOf(ixfr', y, a, b, op)
             /\ \/ RecsOf(ixfr', y, a, b, op) = RecsOf(ixfr, y, a, b, op)
                \/ y = z /\ a = job.from[z] /\ b = job.serial /\ a # b
  <2>1. RecsOf(ixfr, y, a, b, op) \subseteq RecsOf(ixfr', y, a, b, op)
    BY <1>1 DEF RecsOf
  <2>2. ASSUME ~(y = z /\ a = job.from[z] /\ b = job.serial /\ a # b)
        PROVE  RecsOf(ixfr', y, a, b, op) = RecsOf(ixfr, y, a, b, op)
    <3>1. {f \in ixfr' : f.zone = y /\ f.from = a /\ f.to = b /\ f.op = op /\ a # b}
            = {f \in ixfr : f.zone = y /\ f.from = a /\ f.to = b /\ f.op = op /\ a # b}
      BY <1>1, <2>2
    <3>2. QED BY <3>1, Zenon DEF RecsOf
  <2>3. QED BY <2>1, <2>2
<1>3. ASSUME NEW y \in Zones, NEW i \in 1..n(y)
      PROVE  /\ ChangeOf(y, i).remove \subseteq (ChangeOf(y, i)').remove
             /\ ChangeOf(y, i).add \subseteq (ChangeOf(y, i)').add
             /\ ChangeOf(y, i)' = ChangeOf(y, i) \/ leads(y, i)
  <2> DEFINE a == all[y][i].serial
             b == all[y][i + 1].serial
  <2>1. i \in Int
    BY <1>0, AgeTypes
  <2>2. /\ ChangeOf(y, i) = [remove |-> RecsOf(ixfr, y, a, b, "remove"),
                              add    |-> RecsOf(ixfr, y, a, b, "add")]
        /\ ChangeOf(y, i)' = [remove |-> RecsOf(ixfr', y, a, b, "remove"),
                               add    |-> RecsOf(ixfr', y, a, b, "add")]
    BY <1>0, <2>1, ChangeBy
  <2>3. \A op : /\ RecsOf(ixfr, y, a, b, op) \subseteq RecsOf(ixfr', y, a, b, op)
                /\ \/ RecsOf(ixfr', y, a, b, op) = RecsOf(ixfr, y, a, b, op)
                   \/ leads(y, i)
    BY <1>2
  <2> HIDE DEF a, b, leads
  <2>4. QED BY <2>2, <2>3
<1>4. \A y \in Zones : /\ Changes[y] = [i \in 1..n(y) |-> ChangeOf(y, i)]
                       /\ Changes'[y] = [i \in 1..n(y) |-> ChangeOf(y, i)']
  BY <1>0 DEF Changes, ChangeOf
<1>5. ASSUME NEW y \in Zones, \A i \in 1..n(y) : ~leads(y, i)
      PROVE  Changes'[y] = Changes[y]
  <2>1. \A i \in 1..n(y) : ChangeOf(y, i)' = ChangeOf(y, i)
    BY <1>3, <1>5
  <2> HIDE DEF n, leads
  <2>2. QED BY <1>4, <2>1, Zenon
<1>6. CASE \A i \in 1..n(z) : ~leads(z, i)
  <2>1. \A y \in Zones : Changes'[y] = Changes[y]
    BY <1>5, <1>6
  <2>2. QED BY <2>1, SameLog
<1>7. CASE ~(\A i \in 1..n(z) : ~leads(z, i))
  <2>0. PICK k \in 1..n(z) : leads(z, k)
    BY <1>7
  <2>1. /\ k + 1 \in 1..Len(all[z]) /\ all[z] # <<>> /\ Len(all[z]) \in 1..Len(all[z])
        /\ job.serial \in Nat /\ job.from[z] # job.serial
        /\ all[z][k + 1].serial = job.serial
    BY <1>0, <2>0, AgeTypes
  <2>2. /\ job.serial <= Log!LastSerial(z) /\ Log!LastSerial(z) = all[z][Len(all[z])].serial
        /\ Log!LastSerial(z) <= job.serial /\ Log!LastSerial(z) \in Nat
        /\ all[z][Len(all[z])].early \/ Log!LastSerial(z) < job.serial
    BY <1>0, <2>1, AgeTypes DEF AgeInv, SerialsUsed, NotAhead, Log!LastSerial
  <2>3. Log!LastSerial(z) = job.serial /\ all[z][Len(all[z])].early
    BY <2>1, <2>2
  <2>4. latest[z] = job.from[z] /\ latest[z] # Log!LastSerial(z)
    BY <1>0, <2>1, <2>3 DEF LogInv, FromLatest
  <2>5. Torn[z]
    BY <1>0, <2>4 DEF LogInv, ZoneIsVersion, VersionOf, Sound, Torn
  <2>6. DOMAIN Changes'[z] = DOMAIN Changes[z] /\ DOMAIN Changes[z] = 1..n(z)
    BY <1>4
  <2>7. ASSUME NEW i \in DOMAIN Changes[z]
        PROVE  \/ Changes'[z][i] = Changes[z][i]
               \/ /\ all[z][i + 1].serial = Log!LastSerial(z)
                  /\ Changes[z][i].remove \subseteq Changes'[z][i].remove
                  /\ Changes[z][i].add \subseteq Changes'[z][i].add
    <3>1. i \in 1..n(z)
      BY <2>6
    <3>2. Changes[z][i] = ChangeOf(z, i) /\ Changes'[z][i] = ChangeOf(z, i)'
      BY <1>4, <3>1
    <3>3. leads(z, i) => all[z][i + 1].serial = Log!LastSerial(z)
      BY <2>3
    <3>4. QED BY <1>3, <3>1, <3>2, <3>3
  <2>8. \A y \in Zones \ {z} : all'[y] = all[y] /\ Changes'[y] = Changes[y]
    BY <1>0, <1>5
  <2>9. Torn' = Torn
    BY <1>0, SameTorn
  <2> HIDE DEF n, leads
  <2>10. QED BY <1>0, <2>1, <2>3, <2>4, <2>5, <2>6, <2>7, <2>8, <2>9
            DEF Log!Amend, Log!Others
<1>8. QED BY <1>6, <1>7

LEMMA AnnounceStep ==
    ASSUME AgeInv, LogInv, NEW z \in Zones, SetLatest(z)
    PROVE  Log!Announce(z) \/ UNCHANGED Log!zvars
<1>1. /\ job.step[z] = "latest" /\ latest' = [latest EXCEPT ![z] = job.serial]
      /\ UNCHANGED <<all, ixfr, crashes>> /\ latest \in [Zones -> Nat]
  BY DEF SetLatest, CommitUnchanged, AgeInv, SafeInv, TypeOK
<1>2. Log!LastSerial(z) = job.serial
  BY <1>1 DEF LogInv, FromLatest
<1>3. latest[z] = job.serial => latest' = latest
  BY <1>1
<1>4. Changes' = Changes
  BY <1>1, SameChanges, SameLog
<1>5. Torn' = Torn
  BY <1>1, SameTorn
<1>6. QED BY <1>1, <1>2, <1>3, <1>4, <1>5 DEF Log!Announce, Log!zvars

LEMMA RefinesStep ==
    ASSUME AgeInv, LogInv, [Next]_vars, TypeOK'
    PROVE  [Log!Next]_(Log!zvars)
<1>0. TypeOK /\ SafeInv
  BY DEF AgeInv, SafeInv
<1>1. ASSUME UNCHANGED <<all, ixfr, latest, crashes>> PROVE UNCHANGED Log!zvars
  BY <1>1, QuietLog, SameTorn DEF Log!zvars
<1>2. CASE Starts \/ Opens \/ Goes
  BY <1>1, <1>2 DEF Starts, Opens, Goes, redis
<1>3. CASE Crash
  <2>1. crashes' = crashes + 1 /\ UNCHANGED <<all, ixfr, latest>>
    BY <1>3 DEF Crash, redis
  <2>2. \A z \in Zones : LastAfter(z)' # crashes'
    <3>1. \A z \in Zones : /\ LastAfter(z) \in Nat /\ crashes \in Nat
                           /\ LastAfter(z) <= crashes
      BY <1>0, LastTypes DEF LogInv, ZoneIsVersion, VersionOf
    <3>2. QED BY <2>1, <3>1, SameLast
  <2>3. Torn' = [z \in Zones |-> TRUE]
    BY <2>2 DEF Torn
  <2>4. QED BY <2>1, <2>3, QuietLog DEF Log!Next, Log!Crash
<1>4. CASE CommitStep
  <2>1. ASSUME NEW z \in Zones, PushRemoves(z) \/ PushAdds(z)
        PROVE  Log!Next \/ UNCHANGED Log!zvars
    <3>1. UNCHANGED <<all, latest, crashes>>
      BY <2>1 DEF PushRemoves, PushAdds, CommitUnchanged
    <3>2. Changes' = Changes \/ Log!Amend(z)
      BY <2>1, PushChanges
    <3>3. QED BY <3>1, <3>2, SameTorn DEF Log!zvars, Log!Next
  <2>2. ASSUME NEW z \in Zones, PushAll(z) PROVE Log!Next
    BY <2>2, PublishStep DEF Log!Next
  <2>3. ASSUME NEW z \in Zones, SetLatest(z) PROVE Log!Next \/ UNCHANGED Log!zvars
    BY <2>3, AnnounceStep DEF Log!Next
  <2>4. CASE \/ \E z \in Zones, n \in Names : CommitName(z, n)
             \/ StartVMRecords
             \/ \E v \in VMs : SaveVMRecord(v)
             \/ \E z \in Zones : SaveNSRecords(z)
    <3>1. UNCHANGED <<all, ixfr, latest, crashes>>
      BY <1>0, <2>4, JobKeeps
    <3>2. QED BY <1>1, <3>1
  <2>5. CASE FinishCommit
    BY <1>1, <2>5 DEF FinishCommit, redis
  <2>6. QED BY <1>4, <2>1, <2>2, <2>3, <2>4, <2>5 DEF CommitStep
<1>5. QED BY <1>0, <1>2, <1>3, <1>4, StepKinds

LEMMA RefinesInit == Init => Log!Init
<1> SUFFICES ASSUME Init PROVE Log!Init
  OBVIOUS
<1>1. /\ all = [z \in Zones |-> <<>>] /\ latest = [z \in Zones |-> 0] /\ crashes = 0
  BY DEF Init, NoSerial
<1>2. Changes = [z \in Zones |-> Changes[z]]
  BY DEF Changes
<1>3. \A z \in Zones : Changes[z] = <<>>
  BY <1>1, InitType, ChangesOf DEF ChangesFit
<1>4. Changes = [z \in Zones |-> <<>>]
  BY <1>2, <1>3
<1>5. Torn = [z \in Zones |-> FALSE]
  BY <1>1 DEF Torn, LastAfter
<1>6. QED BY <1>1, <1>4, <1>5 DEF Log!Init

(* cns-updater implements ZoneLog: a commit (zone-builder.js, commit() and *)
(* saveIxfr()) logs each version with a greater serial and the exact       *)
(* change that leads to it, announces it only then, and a process that     *)
(* dies halfway spoils nothing that was logged before.  A serial that is   *)
(* closed in the tick it was opened in comes again, and is the one         *)
(* exception: ZoneLog says what is lost with it.                           *)
THEOREM ZonesAreAlwaysLogs == Spec => ZonesAreLogs
<1>1. AgeInv /\ [Next]_vars => AgeInv'
  BY AgeStep
<1>2. AgeInv /\ LogInv /\ [Next]_vars => LogInv'
  BY LogStep
<1>3. AgeInv /\ LogInv /\ AgeInv' /\ [Next]_vars => [Log!Next]_(Log!zvars)
  <2>1. AgeInv' => TypeOK'
    BY DEF AgeInv, SafeInv
  <2>2. QED BY <2>1, RefinesStep
<1>4. QED
  BY <1>1, <1>2, <1>3, AgeInit, LogInit, RefinesInit, PTL
     DEF Spec, ZonesAreLogs, Log!Spec

=============================================================================
