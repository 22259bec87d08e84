-------------------------- MODULE PeerWatch_proofs --------------------------
(***************************************************************************)
(* Proofs about PeerWatch, for all sets of peers and requests, sizes of    *)
(* the pool and limits: no connection is lost, and a blacklisted peer that *)
(* has confirmed a transfer has the timer that takes it off the list.      *)
(***************************************************************************)
EXTENDS PeerWatch, TLAPS

-----------------------------------------------------------------------------
(* The pool: what each operation does to the claims that are open.         *)

Open == held \cup InLine

LEMMA ClaimOpens ==
    ASSUME Distinct, NEW c \in Claims, c \notin Open, Claim(c)
    PROVE  Distinct' /\ Claims' = Claims /\ held' = held /\ Open' = Open \cup {c}
<1>1. /\ waiting \in Seq(Claims) /\ Len(waiting) \in Nat
      /\ waiting' = Append(waiting, c) /\ held' = held
  BY DEF Distinct, Claim
<1>2. /\ Len(waiting') = Len(waiting) + 1 /\ waiting'[Len(waiting) + 1] = c
      /\ \A i \in 1..Len(waiting) : waiting'[i] = waiting[i]
      /\ waiting' \in Seq(Claims)
  BY <1>1
<1>3. InLine' = InLine \cup {c}
  BY <1>1, <1>2 DEF InLine
<1>4. \A i \in 1..Len(waiting) : waiting[i] # c
  BY DEF Open, InLine
<1>5. \A i, j \in 1..Len(waiting') : waiting'[i] = waiting'[j] => i = j
  BY <1>1, <1>2, <1>4 DEF Distinct
<1>6. Claims' = Claims
  BY DEF Claims, LoopClaim, GCClaim, XferClaim, CheckClaim, ReqClaim, SecondClaim
<1>7. QED BY <1>1, <1>2, <1>3, <1>5, <1>6 DEF Distinct, Open

(* The head of the line leaves it.                                         *)
LEMMA HeadLeaves ==
    ASSUME Distinct, waiting # <<>>, waiting' = Tail(waiting)
    PROVE  /\ waiting' \in Seq(Claims) /\ Head(waiting) \in InLine
           /\ InLine' = InLine \ {Head(waiting)}
           /\ \A i, j \in 1..Len(waiting') : waiting'[i] = waiting'[j] => i = j
           /\ Claims' = Claims
<1>1. waiting \in Seq(Claims) /\ Len(waiting) \in Nat \ {0}
  BY DEF Distinct
<1>2. /\ Len(waiting') = Len(waiting) - 1 /\ Head(waiting) = waiting[1]
      /\ \A i \in 1..Len(waiting') : waiting'[i] = waiting[i + 1]
      /\ waiting' \in Seq(Claims)
  BY <1>1
<1>3. \A i \in 2..Len(waiting) : waiting[i] # waiting[1]
  BY <1>1 DEF Distinct
<1>4. InLine' = InLine \ {waiting[1]}
  <2>1. ASSUME NEW i \in 1..Len(waiting')
        PROVE  waiting'[i] \in InLine /\ waiting'[i] # waiting[1]
    BY <1>1, <1>2, <1>3, <2>1 DEF InLine
  <2>2. ASSUME NEW i \in 1..Len(waiting), waiting[i] # waiting[1]
        PROVE  waiting[i] \in InLine'
    <3>1. i - 1 \in 1..Len(waiting') /\ waiting'[i - 1] = waiting[i]
      BY <1>1, <1>2, <2>2
    <3>2. QED BY <3>1 DEF InLine
  <2>3. QED BY <2>1, <2>2 DEF InLine
<1>5. \A i, j \in 1..Len(waiting') : waiting'[i] = waiting'[j] => i = j
  <2>1. SUFFICES ASSUME NEW i \in 1..Len(waiting'), NEW j \in 1..Len(waiting'),
                        waiting[i + 1] = waiting[j + 1]
                 PROVE  i = j
    BY <1>2
  <2>2. i + 1 \in 1..Len(waiting) /\ j + 1 \in 1..Len(waiting)
    BY <1>1, <1>2
  <2>3. i + 1 = j + 1
    BY <2>1, <2>2 DEF Distinct
  <2>4. QED BY <1>1, <1>2, <2>3
<1>6. waiting[1] \in InLine
  BY <1>1 DEF InLine
<1>7. Claims' = Claims
  BY DEF Claims, LoopClaim, GCClaim, XferClaim, CheckClaim, ReqClaim, SecondClaim
<1>8. QED BY <1>2, <1>4, <1>5, <1>6, <1>7

LEMMA GrantKeepsOpen ==
    ASSUME Distinct, Grant
    PROVE  Distinct' /\ Claims' = Claims /\ held \subseteq held' /\ Open' = Open
<1>1. /\ waiting # <<>> /\ waiting' = Tail(waiting)
      /\ held' = held \cup {Head(waiting)}
  BY DEF Grant
<1>2. Head(waiting) \in Claims
  BY <1>1 DEF Distinct
<1>3. QED BY <1>1, <1>2, HeadLeaves DEF Distinct, Open

LEMMA RefuseCloses ==
    ASSUME Distinct, NEW c, Refuse(c)
    PROVE  Distinct' /\ Claims' = Claims /\ held' = held /\ Open' = Open \ {c}
<1>1. waiting # <<>> /\ Head(waiting) = c /\ waiting' = Tail(waiting) /\ held' = held
  BY DEF Refuse
<1>2. QED BY <1>1, HeadLeaves DEF Distinct, Open

LEMMA ReleaseCloses ==
    ASSUME Distinct, NEW C \in SUBSET held, Release(C)
    PROVE  Distinct' /\ Claims' = Claims /\ held' = held \ C /\ Open' = Open \ C
<1>1. held' = held \ C /\ waiting' = waiting /\ InLine' = InLine
  BY DEF Release, InLine
<1>2. Claims' = Claims
  BY DEF Claims, LoopClaim, GCClaim, XferClaim, CheckClaim, ReqClaim, SecondClaim
<1>3. QED BY <1>1, <1>2 DEF Distinct, Open

LEMMA ExchangeOpens ==
    ASSUME Distinct, NEW c \in held, NEW d \in Claims, d \notin Open, Exchange(c, d)
    PROVE  /\ Distinct' /\ Claims' = Claims
           /\ held' = held \ {c} /\ Open' = (Open \ {c}) \cup {d}
<1>1. /\ waiting \in Seq(Claims) /\ Len(waiting) \in Nat
      /\ waiting' = Append(waiting, d) /\ held' = held \ {c}
  BY DEF Distinct, Exchange
<1>2. /\ Len(waiting') = Len(waiting) + 1 /\ waiting'[Len(waiting) + 1] = d
      /\ \A i \in 1..Len(waiting) : waiting'[i] = waiting[i]
      /\ waiting' \in Seq(Claims)
  BY <1>1
<1>3. InLine' = InLine \cup {d}
  BY <1>1, <1>2 DEF InLine
<1>4. \A i \in 1..Len(waiting) : waiting[i] # d
  BY DEF Open, InLine
<1>5. \A i, j \in 1..Len(waiting') : waiting'[i] = waiting'[j] => i = j
  BY <1>1, <1>2, <1>4 DEF Distinct
<1>6. Claims' = Claims
  BY DEF Claims, LoopClaim, GCClaim, XferClaim, CheckClaim, ReqClaim, SecondClaim
<1>7. c \notin InLine
  BY DEF Distinct
<1>8. QED BY <1>1, <1>2, <1>3, <1>5, <1>6, <1>7 DEF Distinct, Open

-----------------------------------------------------------------------------
(* OpenClaims, kind by kind.                                               *)

(* Claims of different kinds, or of different peers or requests, differ.   *)
LEMMA ClaimsDiffer ==
    /\ LoopClaim # GCClaim
    /\ \A p : /\ XferClaim(p) # LoopClaim /\ XferClaim(p) # GCClaim
              /\ CheckClaim(p) # LoopClaim /\ CheckClaim(p) # GCClaim
              /\ ReqClaim(p) # LoopClaim /\ ReqClaim(p) # GCClaim
              /\ SecondClaim(p) # LoopClaim /\ SecondClaim(p) # GCClaim
    /\ \A p, q : /\ XferClaim(p) = XferClaim(q) => p = q
                 /\ CheckClaim(p) = CheckClaim(q) => p = q
                 /\ ReqClaim(p) = ReqClaim(q) => p = q
                 /\ SecondClaim(p) = SecondClaim(q) => p = q
                 /\ XferClaim(p) # CheckClaim(q) /\ XferClaim(p) # ReqClaim(q)
                 /\ XferClaim(p) # SecondClaim(q) /\ CheckClaim(p) # ReqClaim(q)
                 /\ CheckClaim(p) # SecondClaim(q) /\ ReqClaim(p) # SecondClaim(q)
  BY DEF LoopClaim, GCClaim, XferClaim, CheckClaim, ReqClaim, SecondClaim

Kinds ==
    /\ Open \subseteq Claims
    /\ LoopClaim \in Open <=> loop.stage \in {"zones", "peers"}
    /\ GCClaim \in Open <=> loop.stage = "gc"
    /\ \A p \in Peers : /\ XferClaim(p) \in Open <=> xfer[p].stage # "none"
                        /\ CheckClaim(p) \in Open <=> check[p].stage \notin {"none", "armed"}
    /\ \A r \in Reqs : /\ ReqClaim(r) \in Open <=> req[r] # "none"
                       /\ SecondClaim(r) \in Open <=> req[r] = "versions"

LEMMA OpenKinds == NoLeak <=> Kinds
<1>1. ASSUME NoLeak PROVE Kinds
  BY <1>1, ClaimsDiffer DEF NoLeak, Open, Kinds, OpenClaims, Claims
<1>2. ASSUME Kinds PROVE Open = OpenClaims
  BY <1>2, ClaimsDiffer DEF Kinds, OpenClaims, Claims
<1>3. QED BY <1>1, <1>2 DEF NoLeak, Open

-----------------------------------------------------------------------------
(* Types. *)
CheckRecord == [stage : {"none", "armed", "soa", "save", "version", "hung"},
                below : BOOLEAN, answer : {"old", "latest"}, rearm : BOOLEAN]
XferRecord == [stage : {"none", "claim", "read"}, serial : {"old", "latest"}]

LEMMA Records ==
    ASSUME TypeOK
    PROVE  /\ xfer \in [Peers -> XferRecord] /\ check \in [Peers -> CheckRecord]
           /\ \A p \in Peers : xfer[p] \in XferRecord /\ check[p] \in CheckRecord
           /\ NoXfer \in XferRecord /\ NoCheck \in CheckRecord
  BY DEF TypeOK, XferRecord, CheckRecord, NoXfer, NoCheck

(* A check whose stage or answer changes stays one.                        *)
LEMMA CheckKept ==
    ASSUME NEW c \in CheckRecord
    PROVE  /\ \A s \in {"none", "armed", "soa", "save", "version", "hung"} :
                 [c EXCEPT !.stage = s] \in CheckRecord
           /\ \A a \in {"old", "latest"} : [c EXCEPT !.answer = a] \in CheckRecord
           /\ \A b \in BOOLEAN : [NoCheck EXCEPT !.stage = "armed", !.below = b] \in CheckRecord
           /\ \A a \in {"old", "latest"} : \A b \in BOOLEAN :
                 [c EXCEPT !.stage = "save", !.answer = a, !.rearm = b] \in CheckRecord
           /\ \A b \in BOOLEAN : Armed(c, b) \in CheckRecord
           /\ c.below \in BOOLEAN /\ c.answer \in {"old", "latest"}
  BY DEF CheckRecord, NoCheck, Armed

LEMMA TypeStep ==
    ASSUME TypeOK, FailuresInv, [Next]_vars
    PROVE  TypeOK'
<1>1. CASE Commit
  <2>1. /\ check' = [p \in Peers |-> [check[p] EXCEPT !.answer = "old"]]
        /\ xfer' = [p \in Peers |-> [xfer[p] EXCEPT !.serial = "old"]]
    BY <1>1 DEF Commit
  <2>2. \A p \in Peers : [xfer[p] EXCEPT !.serial = "old"] \in XferRecord
    BY Records DEF XferRecord
  <2>3. check' \in [Peers -> CheckRecord] /\ xfer' \in [Peers -> XferRecord]
    BY <2>1, <2>2, Records, CheckKept DEF TypeOK
  <2>4. has' \in [Peers -> Ages] /\ record' \in [Peers -> Ages]
    BY <1>1 DEF Commit, TypeOK, Older, Ages
  <2>5. QED
    BY <1>1, <2>3, <2>4 DEF Commit, TypeOK, CheckRecord, XferRecord, notices
<1>2. CASE Grant /\ UNCHANGED <<world, notices, loop, xfer, check, req, faults>>
  BY BoundsAssumption, <1>2 DEF Grant, TypeOK, FailuresInv, world, notices,
     pool, LoopStart, Asleep, NoXfer, NoCheck, NoReq, Ages, Known,
     Blacklisted
<1>3. CASE WakeLoop
  BY BoundsAssumption, <1>3 DEF WakeLoop, LoopUnchanged, TypeOK, FailuresInv,
     world, notices, pool, LoopStart, Asleep, NoXfer, NoCheck, NoReq, Ages,
     Known, Blacklisted
<1>4. CASE ReadZones
  BY BoundsAssumption, <1>4 DEF ReadZones, LoopUnchanged, TypeOK,
     FailuresInv, world, notices, pool, LoopStart, Asleep, NoXfer, NoCheck,
     NoReq, Ages, Known, Blacklisted
<1>5. CASE Collected
  BY BoundsAssumption, <1>5 DEF Collected, LoopUnchanged, TypeOK,
     FailuresInv, world, notices, pool, LoopStart, Asleep, NoXfer, NoCheck,
     NoReq, Ages, Known, Blacklisted
<1>6. ASSUME NEW B \in SUBSET Peers, NotifyPeers(B)
      PROVE  TypeOK'
  BY BoundsAssumption, <1>6 DEF NotifyPeers, LoopUnchanged, TypeOK,
     FailuresInv, world, notices, pool, LoopStart, Asleep, NoXfer, NoCheck,
     NoReq, Ages, Known, Blacklisted
<1>7. CASE LoopReadFails
  BY BoundsAssumption, <1>7 DEF LoopReadFails, LoopUnchanged, Fault, TypeOK,
     FailuresInv, world, notices, pool, LoopStart, Asleep, NoXfer, NoCheck,
     NoReq, Ages, Known, Blacklisted
<1>8. CASE LoopClaimFails
  BY BoundsAssumption, <1>8 DEF LoopClaimFails, LoopUnchanged, Fault, TypeOK,
     FailuresInv, world, notices, pool, LoopStart, Asleep, NoXfer, NoCheck,
     NoReq, Ages, Known, Blacklisted
<1>9. ASSUME NEW p \in Peers, NotifyOk(p)
      PROVE  TypeOK'
  BY BoundsAssumption, <1>9 DEF NotifyOk, NoticeUnchanged, TypeOK,
     FailuresInv, world, notices, pool, LoopStart, Asleep, NoXfer, NoCheck,
     NoReq, Ages, Known, Blacklisted
<1>10. ASSUME NEW p \in Peers, NotifyFails(p)
      PROVE  TypeOK'
  BY BoundsAssumption, <1>10 DEF NotifyFails, NoticeUnchanged, TypeOK,
     FailuresInv, world, notices, pool, LoopStart, Asleep, NoXfer, NoCheck,
     NoReq, Ages, Known, Blacklisted
<1>11. ASSUME NEW p \in Peers, Forgive(p)
      PROVE  TypeOK'
  BY BoundsAssumption, <1>11 DEF Forgive, NoticeUnchanged, TypeOK,
     FailuresInv, world, notices, pool, LoopStart, Asleep, NoXfer, NoCheck,
     NoReq, Ages, Known, Blacklisted
<1>12. ASSUME NEW p \in Peers, Ask(p)
      PROVE  TypeOK'
  <2>1. xfer' = [xfer EXCEPT ![p] = [xfer[p] EXCEPT !.stage = "claim"]]
    BY <1>12 DEF Ask
  <2>2. [xfer[p] EXCEPT !.stage = "claim"] \in XferRecord
    BY Records DEF XferRecord
  <2>3. xfer' \in [Peers -> XferRecord]
    BY <2>1, <2>2, Records
  <2>4. QED
    BY <1>12, <2>3 DEF Ask, XferUnchanged, TypeOK, XferRecord, notices
<1>13. ASSUME NEW p \in Peers, ReadSOA(p)
      PROVE  TypeOK'
  BY BoundsAssumption, <1>13 DEF ReadSOA, XferUnchanged, TypeOK, FailuresInv,
     world, notices, pool, LoopStart, Asleep, NoXfer, NoCheck, NoReq, Ages,
     Known, Blacklisted
<1>14. ASSUME NEW p \in Peers, Transferred(p)
      PROVE  TypeOK'
  <2>1. PICK b \in BOOLEAN : check' = [check EXCEPT ![p] = Armed(check[p], b)]
    BY <1>14 DEF Transferred
  <2>a. Armed(check[p], b) \in CheckRecord
    BY Records, CheckKept
  <2>2. check' \in [Peers -> CheckRecord]
    BY <2>1, <2>a, Records
  <2>3. xfer' \in [Peers -> XferRecord]
    BY <1>14, Records DEF Transferred
  <2>4. xfer[p].serial \in Ages
    BY Records DEF XferRecord, Ages
  <2>b. has' \in [Peers -> Ages]
    BY <1>14, <2>4 DEF Transferred, TypeOK
  <2>c. faults' = faults \/ Fault
    BY <1>14 DEF Transferred
  <2>5. faults' \in 0..MaxFaults
    BY BoundsAssumption, <2>c DEF Fault, TypeOK
  <2>6. QED
    BY <1>14, <2>2, <2>3, <2>b, <2>5 DEF Transferred, XferUnchanged, TypeOK,
       XferRecord, CheckRecord, notices
<1>15. ASSUME NEW p \in Peers, XferFails(p)
      PROVE  TypeOK'
  BY BoundsAssumption, <1>15 DEF XferFails, XferUnchanged, Fault, TypeOK,
     FailuresInv, world, notices, pool, LoopStart, Asleep, NoXfer, NoCheck,
     NoReq, Ages, Known, Blacklisted
<1>16. ASSUME NEW p \in Peers, CheckTimer(p)
      PROVE  TypeOK'
  <2>1. check' = [check EXCEPT ![p] = [check[p] EXCEPT !.stage = "soa"]]
    BY <1>16 DEF CheckTimer, CheckUnchanged
  <2>2. check' \in [Peers -> CheckRecord]
    BY <2>1, Records, CheckKept DEF TypeOK
  <2>3. QED
    BY <1>16, <2>2 DEF CheckTimer, CheckUnchanged, TypeOK, CheckRecord,
       notices, world
<1>17. ASSUME NEW p \in Peers, PeerAnswers(p)
      PROVE  TypeOK'
  <2>1. check' = [check EXCEPT ![p] = [check[p] EXCEPT !.stage = "save", !.answer = has[p],
                                           !.rearm = check[p].below]]
    BY <1>17 DEF PeerAnswers, CheckUnchanged
  <2>a. has[p] \in {"old", "latest"}
    BY <1>17 DEF PeerAnswers, TypeOK, Ages
  <2>2. check' \in [Peers -> CheckRecord]
    BY <2>1, <2>a, Records, CheckKept DEF TypeOK
  <2>3. QED
    BY <1>17, <2>2 DEF PeerAnswers, CheckUnchanged, TypeOK, CheckRecord,
       notices, world
<1>18. ASSUME NEW p \in Peers, SaveSerial(p)
      PROVE  TypeOK'
  <2>1. check' = [check EXCEPT ![p] = [check[p] EXCEPT !.stage = "version"]]
    BY <1>18 DEF SaveSerial, CheckUnchanged
  <2>2. check' \in [Peers -> CheckRecord]
    BY <2>1, Records, CheckKept DEF TypeOK
  <2>a. check[p].answer \in Ages
    BY Records, CheckKept DEF Ages
  <2>b. record' \in [Peers -> Ages]
    BY <1>18, <2>a DEF SaveSerial, TypeOK
  <2>c. loop' \in [stage : {"sleep", "zones", "peers", "gc"}, behind : SUBSET Peers]
    BY <1>18 DEF SaveSerial, TypeOK
  <2>3. QED
    BY <1>18, <2>2, <2>b, <2>c DEF SaveSerial, CheckUnchanged, TypeOK, CheckRecord,
       notices, world
<1>19. ASSUME NEW p \in Peers, VersionSaved(p)
      PROVE  TypeOK'
  <2>1. \/ check' = [check EXCEPT ![p] = NoCheck]
        \/ check' = [check EXCEPT ![p] = [NoCheck EXCEPT !.stage = "armed", !.below = check[p].below]]
    BY <1>19 DEF VersionSaved, CheckUnchanged, EndCheck
  <2>a. [NoCheck EXCEPT !.stage = "armed", !.below = check[p].below] \in CheckRecord
    BY Records, CheckKept
  <2>2. check' \in [Peers -> CheckRecord]
    BY <2>1, <2>a, Records
  <2>3. QED
    BY <1>19, <2>2 DEF VersionSaved, CheckUnchanged, EndCheck, TypeOK,
       CheckRecord, notices, world
<1>20. ASSUME NEW p \in Peers, NoAnswer(p)
      PROVE  TypeOK'
  <2>1. \/ check' = [check EXCEPT ![p] = NoCheck]
        \/ check' = [check EXCEPT ![p] = [NoCheck EXCEPT !.stage = "armed", !.below = check[p].below]]
    BY <1>20 DEF NoAnswer, CheckUnchanged, EndCheck, Fault
  <2>a. [NoCheck EXCEPT !.stage = "armed", !.below = check[p].below] \in CheckRecord
    BY Records, CheckKept
  <2>2. check' \in [Peers -> CheckRecord]
    BY <2>1, <2>a, Records
  <2>f. faults' \in 0..MaxFaults
    BY BoundsAssumption, <1>20 DEF NoAnswer, Fault, TypeOK
  <2>3. QED
    BY <1>20, <2>2, <2>f DEF NoAnswer, CheckUnchanged, EndCheck, Fault, TypeOK,
       CheckRecord, notices, world
<1>21. ASSUME NEW p \in Peers, CheckFails(p)
      PROVE  TypeOK'
  <2>1. \/ check' = [check EXCEPT ![p] = NoCheck]
        \/ check' = [check EXCEPT ![p] = [NoCheck EXCEPT !.stage = "armed", !.below = check[p].below]]
    BY <1>21 DEF CheckFails, CheckUnchanged, EndCheck, Fault
  <2>a. [NoCheck EXCEPT !.stage = "armed", !.below = check[p].below] \in CheckRecord
    BY Records, CheckKept
  <2>2. check' \in [Peers -> CheckRecord]
    BY <2>1, <2>a, Records
  <2>f. faults' \in 0..MaxFaults
    BY BoundsAssumption, <1>21 DEF CheckFails, Fault, TypeOK
  <2>3. QED
    BY <1>21, <2>2, <2>f DEF CheckFails, CheckUnchanged, EndCheck, Fault, TypeOK,
       CheckRecord, notices, world
<1>22. ASSUME NEW p \in Peers, StrayDatagram(p)
      PROVE  TypeOK'
  <2>1. check' = [check EXCEPT ![p] = [check[p] EXCEPT !.stage = "hung"]]
    BY <1>22 DEF StrayDatagram, CheckUnchanged, Fault
  <2>2. check' \in [Peers -> CheckRecord]
    BY <2>1, Records, CheckKept DEF TypeOK
  <2>f. faults' \in 0..MaxFaults
    BY BoundsAssumption, <1>22 DEF StrayDatagram, Fault, TypeOK
  <2>3. QED
    BY <1>22, <2>2, <2>f DEF StrayDatagram, CheckUnchanged, Fault, TypeOK,
       CheckRecord, notices, world
<1>23. ASSUME NEW r \in Reqs, GotSerials(r)
      PROVE  TypeOK'
  BY BoundsAssumption, <1>23 DEF GotSerials, ReqUnchanged, TypeOK,
     FailuresInv, world, notices, pool, LoopStart, Asleep, NoXfer, NoCheck,
     NoReq, Ages, Known, Blacklisted
<1>24. ASSUME NEW r \in Reqs, GotVersions(r)
      PROVE  TypeOK'
  BY BoundsAssumption, <1>24 DEF GotVersions, ReqUnchanged, TypeOK,
     FailuresInv, world, notices, pool, LoopStart, Asleep, NoXfer, NoCheck,
     NoReq, Ages, Known, Blacklisted
<1>25. ASSUME NEW r \in Reqs, NEW p \in Peers, DeletePeer(r, p)
      PROVE  TypeOK'
  BY BoundsAssumption, <1>25 DEF DeletePeer, ReqUnchanged, TypeOK,
     FailuresInv, world, notices, pool, LoopStart, Asleep, NoXfer, NoCheck,
     NoReq, Ages, Known, Blacklisted
<1>26. ASSUME NEW r \in Reqs, ReqFails(r)
      PROVE  TypeOK'
  BY BoundsAssumption, <1>26 DEF ReqFails, ReqUnchanged, Fault, TypeOK,
     FailuresInv, world, notices, pool, LoopStart, Asleep, NoXfer, NoCheck,
     NoReq, Ages, Known, Blacklisted
<1>27. ASSUME NEW r \in Reqs, NEW kind \in {"get", "delete"}, StartReq(r, kind)
      PROVE  TypeOK'
  BY BoundsAssumption, <1>27 DEF StartReq, ReqUnchanged, TypeOK, FailuresInv,
     world, notices, pool, LoopStart, Asleep, NoXfer, NoCheck, NoReq, Ages,
     Known, Blacklisted
<1>28. CASE Restart
  BY BoundsAssumption, <1>28 DEF Restart, Fresh, Fault, TypeOK, FailuresInv,
     world, notices, pool, LoopStart, Asleep, NoXfer, NoCheck, NoReq, Ages,
     Known, Blacklisted
<1>29. CASE UNCHANGED vars
  BY BoundsAssumption, <1>29 DEF vars, TypeOK, FailuresInv, world, notices,
     pool, LoopStart, Asleep, NoXfer, NoCheck, NoReq, Ages, Known,
     Blacklisted
<1>30. QED
  BY <1>1, <1>2, <1>3, <1>4, <1>5, <1>6, <1>7, <1>8, <1>9, <1>10, <1>11,
     <1>12, <1>13, <1>14, <1>15, <1>16, <1>17, <1>18, <1>19, <1>20, <1>21,
     <1>22, <1>23, <1>24, <1>25, <1>26, <1>27, <1>28, <1>29 DEF Next,
     LoopStep, PeerNext, NoticeStep, XferStep, CheckStep, ReqStep

(* The pool. *)
LEMMA PoolSame ==
    ASSUME Distinct, UNCHANGED pool
    PROVE  Distinct' /\ held' = held /\ Open' = Open /\ Claims' = Claims
<1>1. held' = held /\ waiting' = waiting /\ InLine' = InLine
  BY DEF pool, InLine
<1>2. Claims' = Claims
  BY DEF Claims, LoopClaim, GCClaim, XferClaim, CheckClaim, ReqClaim, SecondClaim
<1>3. QED BY <1>1, <1>2 DEF Distinct, Open

LEMMA PoolStep ==
    ASSUME TypeOK, Distinct, HoldInv, Kinds, [Next]_vars
    PROVE  Distinct' /\ HoldInv' /\ Kinds'
<1>1. CASE Commit
  <2>1. Distinct' /\ Claims' = Claims /\ held \subseteq held' /\ Open' = Open
    BY <1>1, PoolSame DEF Commit
  <2>2. /\ loop'.stage = loop.stage
        /\ \A q \in Peers : xfer'[q].stage = xfer[q].stage
        /\ \A q \in Peers : check'[q].stage = check[q].stage
        /\ req' = req
    BY <1>1, Records DEF Commit, XferRecord, CheckRecord, TypeOK, LoopStart,
       Asleep, NoXfer, NoCheck, NoReq, Armed, notices
  <2>3. HoldInv'
    BY <1>1, <2>1, <2>2, ClaimsDiffer DEF HoldInv, Commit
  <2>4. Kinds'
    BY <1>1, <2>1, <2>2, ClaimsDiffer DEF Kinds, Claims, Commit
  <2>5. QED BY <2>1, <2>3, <2>4
<1>2. CASE Grant /\ UNCHANGED <<world, notices, loop, xfer, check, req, faults>>
  <2>1. Distinct' /\ Claims' = Claims /\ held \subseteq held' /\ Open' = Open
    BY <1>2, GrantKeepsOpen
  <2>2. /\ loop'.stage = loop.stage
        /\ \A q \in Peers : xfer'[q].stage = xfer[q].stage
        /\ \A q \in Peers : check'[q].stage = check[q].stage
        /\ req' = req
    BY <1>2, Records DEF Grant, XferRecord, CheckRecord, TypeOK, LoopStart,
       Asleep, NoXfer, NoCheck, NoReq, Armed, notices
  <2>3. HoldInv'
    BY <1>2, <2>1, <2>2, ClaimsDiffer DEF HoldInv, Grant
  <2>4. Kinds'
    BY <1>2, <2>1, <2>2, ClaimsDiffer DEF Kinds, Claims, Grant
  <2>5. QED BY <2>1, <2>3, <2>4
<1>3. CASE WakeLoop
  <2>1. Distinct' /\ Claims' = Claims /\ held \subseteq held' /\ Open' = Open \cup {LoopClaim}
    BY <1>3, ClaimOpens DEF WakeLoop, LoopUnchanged, Claims, Kinds, NoReq
  <2>2. /\ loop'.stage = "zones"
        /\ \A q \in Peers : xfer'[q].stage = xfer[q].stage
        /\ \A q \in Peers : check'[q].stage = check[q].stage
        /\ req' = req
    BY <1>3, Records DEF WakeLoop, LoopUnchanged, XferRecord, CheckRecord,
       TypeOK, LoopStart, Asleep, NoXfer, NoCheck, NoReq, Armed, notices
  <2>3. HoldInv'
    BY <1>3, <2>1, <2>2, ClaimsDiffer DEF HoldInv, WakeLoop, LoopUnchanged
  <2>4. Kinds'
    BY <1>3, <2>1, <2>2, ClaimsDiffer DEF Kinds, Claims, WakeLoop,
       LoopUnchanged
  <2>5. QED BY <2>1, <2>3, <2>4
<1>4. CASE ReadZones
  <2>1. Distinct' /\ Claims' = Claims /\ held \subseteq held' /\ Open' = Open
    BY <1>4, PoolSame DEF ReadZones, LoopUnchanged
  <2>2. /\ loop'.stage = "peers"
        /\ \A q \in Peers : xfer'[q].stage = xfer[q].stage
        /\ \A q \in Peers : check'[q].stage = check[q].stage
        /\ req' = req
    BY <1>4, Records DEF ReadZones, LoopUnchanged, XferRecord, CheckRecord,
       TypeOK, LoopStart, Asleep, NoXfer, NoCheck, NoReq, Armed, notices
  <2>3. HoldInv'
    BY <1>4, <2>1, <2>2, ClaimsDiffer DEF HoldInv, ReadZones, LoopUnchanged
  <2>4. Kinds'
    BY <1>4, <2>1, <2>2, ClaimsDiffer DEF Kinds, Claims, ReadZones,
       LoopUnchanged
  <2>5. QED BY <2>1, <2>3, <2>4
<1>5. CASE Collected
  <2>1. Distinct' /\ Claims' = Claims /\ held \ {GCClaim} \subseteq held' /\ Open' = Open \ {GCClaim}
    BY <1>5, ReleaseCloses DEF Collected, LoopUnchanged, HoldInv
  <2>2. /\ loop'.stage = "sleep"
        /\ \A q \in Peers : xfer'[q].stage = xfer[q].stage
        /\ \A q \in Peers : check'[q].stage = check[q].stage
        /\ req' = req
    BY <1>5, Records DEF Collected, LoopUnchanged, XferRecord, CheckRecord,
       TypeOK, LoopStart, Asleep, NoXfer, NoCheck, NoReq, Armed, notices
  <2>3. HoldInv'
    BY <1>5, <2>1, <2>2, ClaimsDiffer DEF HoldInv, Collected, LoopUnchanged
  <2>4. Kinds'
    BY <1>5, <2>1, <2>2, ClaimsDiffer DEF Kinds, Claims, Collected,
       LoopUnchanged
  <2>5. QED BY <2>1, <2>3, <2>4
<1>6. ASSUME NEW B \in SUBSET Peers, NotifyPeers(B)
      PROVE  Distinct' /\ HoldInv' /\ Kinds'
  <2>1. /\ Distinct' /\ Claims' = Claims /\ held \ {LoopClaim} \subseteq held'
        /\ Open' = (Open \ {LoopClaim}) \cup {GCClaim}
    BY <1>6, ExchangeOpens DEF NotifyPeers, LoopUnchanged, Kinds, Claims
  <2>2. /\ loop'.stage = "gc"
        /\ \A q \in Peers : xfer'[q].stage = xfer[q].stage
        /\ \A q \in Peers : check'[q].stage = check[q].stage
        /\ req' = req
    BY <1>6, Records DEF NotifyPeers, LoopUnchanged, XferRecord, CheckRecord,
       TypeOK, LoopStart, Asleep, NoXfer, NoCheck, NoReq, Armed, notices
  <2>3. HoldInv'
    BY <1>6, <2>1, <2>2, ClaimsDiffer DEF HoldInv, NotifyPeers, LoopUnchanged
  <2>4. Kinds'
    BY <1>6, <2>1, <2>2, ClaimsDiffer DEF Kinds, Claims, NotifyPeers,
       LoopUnchanged
  <2>5. QED BY <2>1, <2>3, <2>4
<1>7. CASE LoopReadFails
  <2>1. Distinct' /\ Claims' = Claims /\ held \ {LoopClaim} \subseteq held' /\ Open' = Open \ {LoopClaim}
    BY <1>7, ReleaseCloses DEF LoopReadFails, LoopUnchanged, Fault, HoldInv
  <2>2. /\ loop'.stage = "sleep"
        /\ \A q \in Peers : xfer'[q].stage = xfer[q].stage
        /\ \A q \in Peers : check'[q].stage = check[q].stage
        /\ req' = req
    BY <1>7, Records DEF LoopReadFails, LoopUnchanged, Fault, XferRecord,
       CheckRecord, TypeOK, LoopStart, Asleep, NoXfer, NoCheck, NoReq, Armed,
       notices
  <2>3. HoldInv'
    BY <1>7, <2>1, <2>2, ClaimsDiffer DEF HoldInv, LoopReadFails,
       LoopUnchanged, Fault
  <2>4. Kinds'
    BY <1>7, <2>1, <2>2, ClaimsDiffer DEF Kinds, Claims, LoopReadFails,
       LoopUnchanged, Fault
  <2>5. QED BY <2>1, <2>3, <2>4
<1>8. CASE LoopClaimFails
  <2>1. /\ Distinct' /\ Claims' = Claims /\ held \subseteq held'
        /\ Open' = Open \ {LoopClaim, GCClaim}
    <3>1. CASE loop.stage = "zones" /\ Refuse(LoopClaim)
      BY <3>1, RefuseCloses DEF Kinds
    <3>2. CASE loop.stage = "gc" /\ Refuse(GCClaim)
      BY <3>2, RefuseCloses DEF Kinds
    <3>3. QED BY <1>8, <3>1, <3>2 DEF LoopClaimFails
  <2>2. /\ loop'.stage = "sleep"
        /\ \A q \in Peers : xfer'[q].stage = xfer[q].stage
        /\ \A q \in Peers : check'[q].stage = check[q].stage
        /\ req' = req
    BY <1>8, Records DEF LoopClaimFails, LoopUnchanged, Fault, XferRecord,
       CheckRecord, TypeOK, LoopStart, Asleep, NoXfer, NoCheck, NoReq, Armed,
       notices
  <2>3. HoldInv'
    BY <1>8, <2>1, <2>2, ClaimsDiffer DEF HoldInv, LoopClaimFails,
       LoopUnchanged, Fault
  <2>4. Kinds'
    BY <1>8, <2>1, <2>2, ClaimsDiffer DEF Kinds, Claims, LoopClaimFails,
       LoopUnchanged, Fault
  <2>5. QED BY <2>1, <2>3, <2>4
<1>9. ASSUME NEW p \in Peers, NotifyOk(p)
      PROVE  Distinct' /\ HoldInv' /\ Kinds'
  <2>1. Distinct' /\ Claims' = Claims /\ held \subseteq held' /\ Open' = Open
    BY <1>9, PoolSame DEF NotifyOk, NoticeUnchanged
  <2>2. /\ loop'.stage = loop.stage
        /\ \A q \in Peers : xfer'[q].stage = xfer[q].stage
        /\ \A q \in Peers : check'[q].stage = check[q].stage
        /\ req' = req
    BY <1>9, Records DEF NotifyOk, NoticeUnchanged, XferRecord, CheckRecord,
       TypeOK, LoopStart, Asleep, NoXfer, NoCheck, NoReq, Armed, notices
  <2>3. HoldInv'
    BY <1>9, <2>1, <2>2, ClaimsDiffer DEF HoldInv, NotifyOk, NoticeUnchanged
  <2>4. Kinds'
    BY <1>9, <2>1, <2>2, ClaimsDiffer DEF Kinds, Claims, NotifyOk,
       NoticeUnchanged
  <2>5. QED BY <2>1, <2>3, <2>4
<1>10. ASSUME NEW p \in Peers, NotifyFails(p)
      PROVE  Distinct' /\ HoldInv' /\ Kinds'
  <2>1. Distinct' /\ Claims' = Claims /\ held \subseteq held' /\ Open' = Open
    BY <1>10, PoolSame DEF NotifyFails, NoticeUnchanged
  <2>2. /\ loop'.stage = loop.stage
        /\ \A q \in Peers : xfer'[q].stage = xfer[q].stage
        /\ \A q \in Peers : check'[q].stage = check[q].stage
        /\ req' = req
    BY <1>10, Records DEF NotifyFails, NoticeUnchanged, XferRecord,
       CheckRecord, TypeOK, LoopStart, Asleep, NoXfer, NoCheck, NoReq, Armed,
       notices
  <2>3. HoldInv'
    BY <1>10, <2>1, <2>2, ClaimsDiffer DEF HoldInv, NotifyFails,
       NoticeUnchanged
  <2>4. Kinds'
    BY <1>10, <2>1, <2>2, ClaimsDiffer DEF Kinds, Claims, NotifyFails,
       NoticeUnchanged
  <2>5. QED BY <2>1, <2>3, <2>4
<1>11. ASSUME NEW p \in Peers, Forgive(p)
      PROVE  Distinct' /\ HoldInv' /\ Kinds'
  <2>1. Distinct' /\ Claims' = Claims /\ held \subseteq held' /\ Open' = Open
    BY <1>11, PoolSame DEF Forgive, NoticeUnchanged
  <2>2. /\ loop'.stage = loop.stage
        /\ \A q \in Peers : xfer'[q].stage = xfer[q].stage
        /\ \A q \in Peers : check'[q].stage = check[q].stage
        /\ req' = req
    BY <1>11, Records DEF Forgive, NoticeUnchanged, XferRecord, CheckRecord,
       TypeOK, LoopStart, Asleep, NoXfer, NoCheck, NoReq, Armed, notices
  <2>3. HoldInv'
    BY <1>11, <2>1, <2>2, ClaimsDiffer DEF HoldInv, Forgive, NoticeUnchanged
  <2>4. Kinds'
    BY <1>11, <2>1, <2>2, ClaimsDiffer DEF Kinds, Claims, Forgive,
       NoticeUnchanged
  <2>5. QED BY <2>1, <2>3, <2>4
<1>12. ASSUME NEW p \in Peers, Ask(p)
      PROVE  Distinct' /\ HoldInv' /\ Kinds'
  <2>1. Distinct' /\ Claims' = Claims /\ held \subseteq held' /\ Open' = Open \cup {XferClaim(p)}
    BY <1>12, ClaimOpens DEF Ask, XferUnchanged, Claims, Kinds, NoReq
  <2>2. /\ loop'.stage = loop.stage
        /\ \A q \in Peers : IF q = p THEN xfer'[q].stage = "claim" ELSE xfer'[q].stage = xfer[q].stage
        /\ \A q \in Peers : check'[q].stage = check[q].stage
        /\ req' = req
    BY <1>12, Records DEF Ask, XferUnchanged, XferRecord, CheckRecord,
       TypeOK, LoopStart, Asleep, NoXfer, NoCheck, NoReq, Armed, notices
  <2>3. HoldInv'
    BY <1>12, <2>1, <2>2, ClaimsDiffer DEF HoldInv, Ask, XferUnchanged
  <2>4. Kinds'
    BY <1>12, <2>1, <2>2, ClaimsDiffer DEF Kinds, Claims, Ask, XferUnchanged
  <2>5. QED BY <2>1, <2>3, <2>4
<1>13. ASSUME NEW p \in Peers, ReadSOA(p)
      PROVE  Distinct' /\ HoldInv' /\ Kinds'
  <2>1. Distinct' /\ Claims' = Claims /\ held \subseteq held' /\ Open' = Open
    BY <1>13, PoolSame DEF ReadSOA, XferUnchanged
  <2>2. /\ loop'.stage = loop.stage
        /\ \A q \in Peers : IF q = p THEN xfer'[q].stage = "read" ELSE xfer'[q].stage = xfer[q].stage
        /\ \A q \in Peers : check'[q].stage = check[q].stage
        /\ req' = req
    BY <1>13, Records DEF ReadSOA, XferUnchanged, XferRecord, CheckRecord,
       TypeOK, LoopStart, Asleep, NoXfer, NoCheck, NoReq, Armed, notices
  <2>3. HoldInv'
    BY <1>13, <2>1, <2>2, ClaimsDiffer DEF HoldInv, ReadSOA, XferUnchanged
  <2>4. Kinds'
    BY <1>13, <2>1, <2>2, ClaimsDiffer DEF Kinds, Claims, ReadSOA,
       XferUnchanged
  <2>5. QED BY <2>1, <2>3, <2>4
<1>14. ASSUME NEW p \in Peers, Transferred(p)
      PROVE  Distinct' /\ HoldInv' /\ Kinds'
  <2>1. Distinct' /\ Claims' = Claims /\ held \ {XferClaim(p)} \subseteq held' /\ Open' = Open \ {XferClaim(p)}
    BY <1>14, ReleaseCloses DEF Transferred, XferUnchanged, Fault, HoldInv
  <2>a. PICK b \in BOOLEAN : check' = [check EXCEPT ![p] = Armed(check[p], b)]
    BY <1>14 DEF Transferred
  <2>b. Armed(check[p], b).stage = IF check[p].stage = "none" THEN "armed" ELSE check[p].stage
    BY Records DEF Armed, NoCheck, CheckRecord
  <2>c. \A q \in Peers : IF q = p THEN check'[q].stage = IF check[p].stage = "none" THEN "armed" ELSE check[p].stage ELSE check'[q].stage = check[q].stage
    BY <2>a, <2>b, Records
  <2>2. /\ loop'.stage = loop.stage
        /\ \A q \in Peers : IF q = p THEN xfer'[q].stage = "none" ELSE xfer'[q].stage = xfer[q].stage
        /\ req' = req
    BY <1>14, Records DEF Transferred, XferUnchanged, Fault, XferRecord,
       CheckRecord, TypeOK, LoopStart, Asleep, NoXfer, NoCheck, NoReq, Armed,
       notices
  <2>3. HoldInv'
    BY <1>14, <2>1, <2>2, <2>c, ClaimsDiffer DEF HoldInv, Transferred,
       XferUnchanged, Fault
  <2>4. Kinds'
    BY <1>14, <2>1, <2>2, <2>c, ClaimsDiffer DEF Kinds, Claims, Transferred,
       XferUnchanged, Fault
  <2>5. QED BY <2>1, <2>3, <2>4
<1>15. ASSUME NEW p \in Peers, XferFails(p)
      PROVE  Distinct' /\ HoldInv' /\ Kinds'
  <2>1. Distinct' /\ Claims' = Claims /\ held \ {XferClaim(p)} \subseteq held' /\ Open' = Open \ {XferClaim(p)}
    <3>1. CASE Refuse(XferClaim(p))
      BY <3>1, RefuseCloses
    <3>2. CASE XferClaim(p) \in held /\ Release({XferClaim(p)})
      BY <3>2, ReleaseCloses
    <3>3. QED
      BY <1>15, <3>1, <3>2 DEF XferFails, XferUnchanged, Fault, HoldInv
  <2>2. /\ loop'.stage = loop.stage
        /\ \A q \in Peers : IF q = p THEN xfer'[q].stage = "none" ELSE xfer'[q].stage = xfer[q].stage
        /\ \A q \in Peers : check'[q].stage = check[q].stage
        /\ req' = req
    BY <1>15, Records DEF XferFails, XferUnchanged, Fault, XferRecord,
       CheckRecord, TypeOK, LoopStart, Asleep, NoXfer, NoCheck, NoReq, Armed,
       notices
  <2>3. HoldInv'
    BY <1>15, <2>1, <2>2, ClaimsDiffer DEF HoldInv, XferFails, XferUnchanged,
       Fault
  <2>4. Kinds'
    BY <1>15, <2>1, <2>2, ClaimsDiffer DEF Kinds, Claims, XferFails,
       XferUnchanged, Fault
  <2>5. QED BY <2>1, <2>3, <2>4
<1>16. ASSUME NEW p \in Peers, CheckTimer(p)
      PROVE  Distinct' /\ HoldInv' /\ Kinds'
  <2>1. Distinct' /\ Claims' = Claims /\ held \subseteq held' /\ Open' = Open \cup {CheckClaim(p)}
    BY <1>16, ClaimOpens DEF CheckTimer, CheckUnchanged, Claims, Kinds, NoReq
  <2>2. /\ loop'.stage = loop.stage
        /\ \A q \in Peers : xfer'[q].stage = xfer[q].stage
        /\ \A q \in Peers : IF q = p THEN check'[q].stage = "soa" ELSE check'[q].stage = check[q].stage
        /\ req' = req
    BY <1>16, Records DEF CheckTimer, CheckUnchanged, XferRecord,
       CheckRecord, TypeOK, LoopStart, Asleep, NoXfer, NoCheck, NoReq, Armed,
       notices
  <2>3. HoldInv'
    BY <1>16, <2>1, <2>2, ClaimsDiffer DEF HoldInv, CheckTimer,
       CheckUnchanged
  <2>4. Kinds'
    BY <1>16, <2>1, <2>2, ClaimsDiffer DEF Kinds, Claims, CheckTimer,
       CheckUnchanged
  <2>5. QED BY <2>1, <2>3, <2>4
<1>17. ASSUME NEW p \in Peers, PeerAnswers(p)
      PROVE  Distinct' /\ HoldInv' /\ Kinds'
  <2>1. Distinct' /\ Claims' = Claims /\ held \subseteq held' /\ Open' = Open
    BY <1>17, PoolSame DEF PeerAnswers, CheckUnchanged
  <2>2. /\ loop'.stage = loop.stage
        /\ \A q \in Peers : xfer'[q].stage = xfer[q].stage
        /\ \A q \in Peers : IF q = p THEN check'[q].stage = "save" ELSE check'[q].stage = check[q].stage
        /\ req' = req
    BY <1>17, Records DEF PeerAnswers, CheckUnchanged, XferRecord,
       CheckRecord, TypeOK, LoopStart, Asleep, NoXfer, NoCheck, NoReq, Armed,
       notices
  <2>3. HoldInv'
    BY <1>17, <2>1, <2>2, ClaimsDiffer DEF HoldInv, PeerAnswers,
       CheckUnchanged
  <2>4. Kinds'
    BY <1>17, <2>1, <2>2, ClaimsDiffer DEF Kinds, Claims, PeerAnswers,
       CheckUnchanged
  <2>5. QED BY <2>1, <2>3, <2>4
<1>18. ASSUME NEW p \in Peers, SaveSerial(p)
      PROVE  Distinct' /\ HoldInv' /\ Kinds'
  <2>1. Distinct' /\ Claims' = Claims /\ held \subseteq held' /\ Open' = Open
    BY <1>18, PoolSame DEF SaveSerial, CheckUnchanged
  <2>2. /\ loop'.stage = loop.stage
        /\ \A q \in Peers : xfer'[q].stage = xfer[q].stage
        /\ \A q \in Peers : IF q = p THEN check'[q].stage = "version" ELSE check'[q].stage = check[q].stage
        /\ req' = req
    BY <1>18, Records DEF SaveSerial, CheckUnchanged, XferRecord,
       CheckRecord, TypeOK, LoopStart, Asleep, NoXfer, NoCheck, NoReq, Armed,
       notices
  <2>3. HoldInv'
    BY <1>18, <2>1, <2>2, ClaimsDiffer DEF HoldInv, SaveSerial,
       CheckUnchanged
  <2>4. Kinds'
    BY <1>18, <2>1, <2>2, ClaimsDiffer DEF Kinds, Claims, SaveSerial,
       CheckUnchanged
  <2>5. QED BY <2>1, <2>3, <2>4
<1>19. ASSUME NEW p \in Peers, VersionSaved(p)
      PROVE  Distinct' /\ HoldInv' /\ Kinds'
  <2>1. Distinct' /\ Claims' = Claims /\ held \ {CheckClaim(p)} \subseteq held' /\ Open' = Open \ {CheckClaim(p)}
    BY <1>19, ReleaseCloses DEF VersionSaved, CheckUnchanged, EndCheck,
       HoldInv
  <2>a. \/ check' = [check EXCEPT ![p] = NoCheck]
        \/ check' = [check EXCEPT ![p] = [NoCheck EXCEPT !.stage = "armed", !.below = check[p].below]]
    BY <1>19 DEF VersionSaved, CheckUnchanged, EndCheck
  <2>b. \A q \in Peers : IF q = p THEN check'[q].stage \in {"none", "armed"} ELSE check'[q].stage = check[q].stage
    <3>a. NoCheck.stage = "none"
      BY DEF NoCheck
    <3>b. [NoCheck EXCEPT !.stage = "armed", !.below = check[p].below].stage = "armed"
      BY DEF NoCheck
    <3>1. CASE check' = [check EXCEPT ![p] = NoCheck]
      BY <3>a, <3>1, Records
    <3>2. CASE check' = [check EXCEPT ![p] = [NoCheck EXCEPT !.stage = "armed", !.below = check[p].below]]
      BY <3>b, <3>2, Records
    <3>3. QED BY <2>a, <3>1, <3>2
  <2>2. /\ loop'.stage = loop.stage
        /\ \A q \in Peers : xfer'[q].stage = xfer[q].stage
        /\ req' = req
    BY <1>19, Records DEF VersionSaved, CheckUnchanged, EndCheck, XferRecord,
       CheckRecord, TypeOK, LoopStart, Asleep, NoXfer, NoCheck, NoReq, Armed,
       notices
  <2>3. HoldInv'
    BY <1>19, <2>1, <2>2, <2>b, ClaimsDiffer DEF HoldInv, VersionSaved,
       CheckUnchanged, EndCheck
  <2>4. Kinds'
    BY <1>19, <2>1, <2>2, <2>b, ClaimsDiffer DEF Kinds, Claims, VersionSaved,
       CheckUnchanged, EndCheck
  <2>5. QED BY <2>1, <2>3, <2>4
<1>20. ASSUME NEW p \in Peers, NoAnswer(p)
      PROVE  Distinct' /\ HoldInv' /\ Kinds'
  <2>1. Distinct' /\ Claims' = Claims /\ held \ {CheckClaim(p)} \subseteq held' /\ Open' = Open \ {CheckClaim(p)}
    BY <1>20, ReleaseCloses DEF NoAnswer, CheckUnchanged, EndCheck, Fault,
       HoldInv
  <2>a. \/ check' = [check EXCEPT ![p] = NoCheck]
        \/ check' = [check EXCEPT ![p] = [NoCheck EXCEPT !.stage = "armed", !.below = check[p].below]]
    BY <1>20 DEF NoAnswer, CheckUnchanged, EndCheck, Fault
  <2>b. \A q \in Peers : IF q = p THEN check'[q].stage \in {"none", "armed"} ELSE check'[q].stage = check[q].stage
    <3>a. NoCheck.stage = "none"
      BY DEF NoCheck
    <3>b. [NoCheck EXCEPT !.stage = "armed", !.below = check[p].below].stage = "armed"
      BY DEF NoCheck
    <3>1. CASE check' = [check EXCEPT ![p] = NoCheck]
      BY <3>a, <3>1, Records
    <3>2. CASE check' = [check EXCEPT ![p] = [NoCheck EXCEPT !.stage = "armed", !.below = check[p].below]]
      BY <3>b, <3>2, Records
    <3>3. QED BY <2>a, <3>1, <3>2
  <2>2. /\ loop'.stage = loop.stage
        /\ \A q \in Peers : xfer'[q].stage = xfer[q].stage
        /\ req' = req
    BY <1>20, Records DEF NoAnswer, CheckUnchanged, EndCheck, Fault,
       XferRecord, CheckRecord, TypeOK, LoopStart, Asleep, NoXfer, NoCheck,
       NoReq, Armed, notices
  <2>3. HoldInv'
    BY <1>20, <2>1, <2>2, <2>b, ClaimsDiffer DEF HoldInv, NoAnswer,
       CheckUnchanged, EndCheck, Fault
  <2>4. Kinds'
    BY <1>20, <2>1, <2>2, <2>b, ClaimsDiffer DEF Kinds, Claims, NoAnswer,
       CheckUnchanged, EndCheck, Fault
  <2>5. QED BY <2>1, <2>3, <2>4
<1>21. ASSUME NEW p \in Peers, CheckFails(p)
      PROVE  Distinct' /\ HoldInv' /\ Kinds'
  <2>1. Distinct' /\ Claims' = Claims /\ held \ {CheckClaim(p)} \subseteq held' /\ Open' = Open \ {CheckClaim(p)}
    <3>1. CASE Refuse(CheckClaim(p))
      BY <3>1, RefuseCloses
    <3>2. CASE CheckClaim(p) \in held /\ Release({CheckClaim(p)})
      BY <3>2, ReleaseCloses
    <3>3. QED
      BY <1>21, <3>1, <3>2 DEF CheckFails, CheckUnchanged, EndCheck, Fault,
         HoldInv
  <2>a. \/ check' = [check EXCEPT ![p] = NoCheck]
        \/ check' = [check EXCEPT ![p] = [NoCheck EXCEPT !.stage = "armed", !.below = check[p].below]]
    BY <1>21 DEF CheckFails, CheckUnchanged, EndCheck, Fault
  <2>b. \A q \in Peers : IF q = p THEN check'[q].stage \in {"none", "armed"} ELSE check'[q].stage = check[q].stage
    <3>a. NoCheck.stage = "none"
      BY DEF NoCheck
    <3>b. [NoCheck EXCEPT !.stage = "armed", !.below = check[p].below].stage = "armed"
      BY DEF NoCheck
    <3>1. CASE check' = [check EXCEPT ![p] = NoCheck]
      BY <3>a, <3>1, Records
    <3>2. CASE check' = [check EXCEPT ![p] = [NoCheck EXCEPT !.stage = "armed", !.below = check[p].below]]
      BY <3>b, <3>2, Records
    <3>3. QED BY <2>a, <3>1, <3>2
  <2>2. /\ loop'.stage = loop.stage
        /\ \A q \in Peers : xfer'[q].stage = xfer[q].stage
        /\ req' = req
    BY <1>21, Records DEF CheckFails, CheckUnchanged, EndCheck, Fault,
       XferRecord, CheckRecord, TypeOK, LoopStart, Asleep, NoXfer, NoCheck,
       NoReq, Armed, notices
  <2>3. HoldInv'
    BY <1>21, <2>1, <2>2, <2>b, ClaimsDiffer DEF HoldInv, CheckFails,
       CheckUnchanged, EndCheck, Fault
  <2>4. Kinds'
    BY <1>21, <2>1, <2>2, <2>b, ClaimsDiffer DEF Kinds, Claims, CheckFails,
       CheckUnchanged, EndCheck, Fault
  <2>5. QED BY <2>1, <2>3, <2>4
<1>22. ASSUME NEW p \in Peers, StrayDatagram(p)
      PROVE  Distinct' /\ HoldInv' /\ Kinds'
  <2>1. Distinct' /\ Claims' = Claims /\ held \subseteq held' /\ Open' = Open
    BY <1>22, PoolSame DEF StrayDatagram, CheckUnchanged, Fault
  <2>2. /\ loop'.stage = loop.stage
        /\ \A q \in Peers : xfer'[q].stage = xfer[q].stage
        /\ \A q \in Peers : IF q = p THEN check'[q].stage = "hung" ELSE check'[q].stage = check[q].stage
        /\ req' = req
    BY <1>22, Records DEF StrayDatagram, CheckUnchanged, Fault, XferRecord,
       CheckRecord, TypeOK, LoopStart, Asleep, NoXfer, NoCheck, NoReq, Armed,
       notices
  <2>3. HoldInv'
    BY <1>22, <2>1, <2>2, ClaimsDiffer DEF HoldInv, StrayDatagram,
       CheckUnchanged, Fault
  <2>4. Kinds'
    BY <1>22, <2>1, <2>2, ClaimsDiffer DEF Kinds, Claims, StrayDatagram,
       CheckUnchanged, Fault
  <2>5. QED BY <2>1, <2>3, <2>4
<1>23. ASSUME NEW r \in Reqs, GotSerials(r)
      PROVE  Distinct' /\ HoldInv' /\ Kinds'
  <2>1. Distinct' /\ Claims' = Claims /\ held \subseteq held' /\ Open' = Open \cup {SecondClaim(r)}
    BY <1>23, ClaimOpens DEF GotSerials, ReqUnchanged, Claims, Kinds, NoReq
  <2>2. /\ loop'.stage = loop.stage
        /\ \A q \in Peers : xfer'[q].stage = xfer[q].stage
        /\ \A q \in Peers : check'[q].stage = check[q].stage
        /\ \A q \in Reqs : IF q = r THEN req'[q] = "versions" ELSE req'[q] = req[q]
    BY <1>23, Records DEF GotSerials, ReqUnchanged, XferRecord, CheckRecord,
       TypeOK, LoopStart, Asleep, NoXfer, NoCheck, NoReq, Armed, notices
  <2>3. HoldInv'
    BY <1>23, <2>1, <2>2, ClaimsDiffer DEF HoldInv, GotSerials, ReqUnchanged
  <2>4. Kinds'
    BY <1>23, <2>1, <2>2, ClaimsDiffer DEF Kinds, Claims, GotSerials,
       ReqUnchanged
  <2>5. QED BY <2>1, <2>3, <2>4
<1>24. ASSUME NEW r \in Reqs, GotVersions(r)
      PROVE  Distinct' /\ HoldInv' /\ Kinds'
  <2>1. Distinct' /\ Claims' = Claims /\ held \ {ReqClaim(r), SecondClaim(r)} \subseteq held' /\ Open' = Open \ {ReqClaim(r), SecondClaim(r)}
    BY <1>24, ReleaseCloses DEF GotVersions, ReqUnchanged, HoldInv
  <2>2. /\ loop'.stage = loop.stage
        /\ \A q \in Peers : xfer'[q].stage = xfer[q].stage
        /\ \A q \in Peers : check'[q].stage = check[q].stage
        /\ \A q \in Reqs : IF q = r THEN req'[q] = "none" ELSE req'[q] = req[q]
    BY <1>24, Records DEF GotVersions, ReqUnchanged, XferRecord, CheckRecord,
       TypeOK, LoopStart, Asleep, NoXfer, NoCheck, NoReq, Armed, notices
  <2>3. HoldInv'
    BY <1>24, <2>1, <2>2, ClaimsDiffer DEF HoldInv, GotVersions, ReqUnchanged
  <2>4. Kinds'
    BY <1>24, <2>1, <2>2, ClaimsDiffer DEF Kinds, Claims, GotVersions,
       ReqUnchanged
  <2>5. QED BY <2>1, <2>3, <2>4
<1>25. ASSUME NEW r \in Reqs, NEW p \in Peers, DeletePeer(r, p)
      PROVE  Distinct' /\ HoldInv' /\ Kinds'
  <2>1. Distinct' /\ Claims' = Claims /\ held \ {ReqClaim(r)} \subseteq held' /\ Open' = Open \ {ReqClaim(r)}
    BY <1>25, ReleaseCloses DEF DeletePeer, ReqUnchanged, HoldInv
  <2>2. /\ loop'.stage = loop.stage
        /\ \A q \in Peers : xfer'[q].stage = xfer[q].stage
        /\ \A q \in Peers : check'[q].stage = check[q].stage
        /\ \A q \in Reqs : IF q = r THEN req'[q] = "none" ELSE req'[q] = req[q]
    BY <1>25, Records DEF DeletePeer, ReqUnchanged, XferRecord, CheckRecord,
       TypeOK, LoopStart, Asleep, NoXfer, NoCheck, NoReq, Armed, notices
  <2>3. HoldInv'
    BY <1>25, <2>1, <2>2, ClaimsDiffer DEF HoldInv, DeletePeer, ReqUnchanged
  <2>4. Kinds'
    BY <1>25, <2>1, <2>2, ClaimsDiffer DEF Kinds, Claims, DeletePeer,
       ReqUnchanged
  <2>5. QED BY <2>1, <2>3, <2>4
<1>26. ASSUME NEW r \in Reqs, ReqFails(r)
      PROVE  Distinct' /\ HoldInv' /\ Kinds'
  <2>1. /\ Distinct' /\ Claims' = Claims /\ held \ {ReqClaim(r), SecondClaim(r)} \subseteq held'
        /\ Open' = Open \ {ReqClaim(r), SecondClaim(r)}
    <3>1. CASE req[r] \in {"get", "delete"} /\ ReqClaim(r) \in held /\ Release({ReqClaim(r)})
      BY <3>1, ReleaseCloses DEF Kinds
    <3>2. CASE SecondClaim(r) \in held /\ Release({ReqClaim(r), SecondClaim(r)})
               /\ ReqClaim(r) \in held
      BY <3>2, ReleaseCloses
    <3>3. CASE /\ waiting # <<>> /\ Head(waiting) = SecondClaim(r) /\ ReqClaim(r) \in held
               /\ waiting' = Tail(waiting) /\ held' = held \ {ReqClaim(r)}
      <4>1. SecondClaim(r) \notin held /\ ReqClaim(r) \notin InLine
        BY <3>3, HeadLeaves DEF Distinct
      <4>2. QED BY <3>3, <4>1, HeadLeaves DEF Distinct, Open
    <3>4. QED
      BY <1>26, <3>1, <3>2, <3>3 DEF ReqFails, HoldInv
  <2>2. /\ loop'.stage = loop.stage
        /\ \A q \in Peers : xfer'[q].stage = xfer[q].stage
        /\ \A q \in Peers : check'[q].stage = check[q].stage
        /\ \A q \in Reqs : IF q = r THEN req'[q] = "none" ELSE req'[q] = req[q]
    BY <1>26, Records DEF ReqFails, ReqUnchanged, Fault, XferRecord,
       CheckRecord, TypeOK, LoopStart, Asleep, NoXfer, NoCheck, NoReq, Armed,
       notices
  <2>3. HoldInv'
    BY <1>26, <2>1, <2>2, ClaimsDiffer DEF HoldInv, ReqFails, ReqUnchanged,
       Fault
  <2>4. Kinds'
    BY <1>26, <2>1, <2>2, ClaimsDiffer DEF Kinds, Claims, ReqFails,
       ReqUnchanged, Fault
  <2>5. QED BY <2>1, <2>3, <2>4
<1>27. ASSUME NEW r \in Reqs, NEW kind \in {"get", "delete"}, StartReq(r, kind)
      PROVE  Distinct' /\ HoldInv' /\ Kinds'
  <2>1. Distinct' /\ Claims' = Claims /\ held \subseteq held' /\ Open' = Open \cup {ReqClaim(r)}
    BY <1>27, ClaimOpens DEF StartReq, ReqUnchanged, Claims, Kinds, NoReq
  <2>2. /\ loop'.stage = loop.stage
        /\ \A q \in Peers : xfer'[q].stage = xfer[q].stage
        /\ \A q \in Peers : check'[q].stage = check[q].stage
        /\ \A q \in Reqs : IF q = r THEN req'[q] \in {"get", "delete"} ELSE req'[q] = req[q]
    BY <1>27, Records DEF StartReq, ReqUnchanged, XferRecord, CheckRecord,
       TypeOK, LoopStart, Asleep, NoXfer, NoCheck, NoReq, Armed, notices
  <2>3. HoldInv'
    BY <1>27, <2>1, <2>2, ClaimsDiffer DEF HoldInv, StartReq, ReqUnchanged
  <2>4. Kinds'
    BY <1>27, <2>1, <2>2, ClaimsDiffer DEF Kinds, Claims, StartReq,
       ReqUnchanged, NoReq
  <2>5. QED BY <2>1, <2>3, <2>4
<1>28. CASE Restart
  <2>1. /\ held' = {} /\ waiting' = <<LoopClaim>> /\ loop' = LoopStart
        /\ xfer' = [p \in Peers |-> NoXfer] /\ check' = [p \in Peers |-> NoCheck]
        /\ req' = [r \in Reqs |-> NoReq]
    BY <1>28 DEF Restart, Fresh
  <2>2. LoopClaim \in Claims /\ Claims' = Claims
    BY DEF Claims, LoopClaim, GCClaim, XferClaim, CheckClaim, ReqClaim, SecondClaim
  <2>3. InLine' = {LoopClaim} /\ Open' = {LoopClaim}
    BY <2>1 DEF InLine, Open
  <2>4. Distinct'
    BY <2>1, <2>2, <2>3 DEF Distinct
  <2>5. HoldInv'
    BY <2>1 DEF HoldInv, NoXfer, NoCheck, NoReq
  <2>6. Kinds'
    BY <2>1, <2>2, <2>3, ClaimsDiffer DEF Kinds, LoopStart, NoXfer, NoCheck, NoReq
  <2>7. QED BY <2>4, <2>5, <2>6
<1>29. CASE UNCHANGED vars
  <2>1. Distinct' /\ Claims' = Claims /\ held \subseteq held' /\ Open' = Open
    BY <1>29, PoolSame DEF vars, pool
  <2>2. /\ loop'.stage = loop.stage
        /\ \A q \in Peers : xfer'[q].stage = xfer[q].stage
        /\ \A q \in Peers : check'[q].stage = check[q].stage
        /\ req' = req
    BY <1>29, Records DEF vars, XferRecord, CheckRecord, TypeOK, LoopStart,
       Asleep, NoXfer, NoCheck, NoReq, Armed, notices
  <2>3. HoldInv'
    BY <1>29, <2>1, <2>2, ClaimsDiffer DEF HoldInv, vars
  <2>4. Kinds'
    BY <1>29, <2>1, <2>2, ClaimsDiffer DEF Kinds, Claims, vars
  <2>5. QED BY <2>1, <2>3, <2>4
<1>30. QED
  BY <1>1, <1>2, <1>3, <1>4, <1>5, <1>6, <1>7, <1>8, <1>9, <1>10, <1>11,
     <1>12, <1>13, <1>14, <1>15, <1>16, <1>17, <1>18, <1>19, <1>20, <1>21,
     <1>22, <1>23, <1>24, <1>25, <1>26, <1>27, <1>28, <1>29 DEF Next,
     LoopStep, PeerNext, NoticeStep, XferStep, CheckStep, ReqStep

-----------------------------------------------------------------------------
(* Failures, and the timers that forgive them. *)

(* The steps that have to do with failures.                                *)
LEMMA NoticesOrNot ==
    ASSUME [Next]_vars
    PROVE  \/ UNCHANGED <<failures, sent, unblacklist, earned>>
           \/ \E B \in SUBSET Peers : NotifyPeers(B)
           \/ \E p \in Peers : NotifyOk(p) \/ NotifyFails(p) \/ Forgive(p) \/ PeerAnswers(p)
           \/ Restart
<1>1. CASE Commit \/ (Grant /\ UNCHANGED <<world, notices, loop, xfer, check, req, faults>>)
           \/ WakeLoop \/ ReadZones \/ Collected \/ LoopReadFails \/ LoopClaimFails
           \/ UNCHANGED vars
  BY <1>1 DEF Commit, WakeLoop, ReadZones, Collected, LoopReadFails, LoopClaimFails, notices, vars
<1>2. ASSUME NEW p \in Peers, Ask(p) \/ XferStep(p) \/ XferFails(p)
      PROVE  UNCHANGED <<failures, sent, unblacklist, earned>>
  BY <1>2 DEF Ask, XferStep, ReadSOA, Transferred, XferFails, XferUnchanged, notices
<1>3. ASSUME NEW p \in Peers, CheckStep(p) \/ CheckFails(p) \/ StrayDatagram(p)
      PROVE  UNCHANGED <<failures, sent, unblacklist, earned>> \/ PeerAnswers(p)
  BY <1>3 DEF CheckStep, CheckTimer, SaveSerial, VersionSaved, NoAnswer, CheckFails,
              StrayDatagram, EndCheck, CheckUnchanged
<1>4. ASSUME NEW r \in Reqs,
             \/ ReqStep(r) \/ ReqFails(r)
             \/ \E kind \in {"get", "delete"} : StartReq(r, kind)
      PROVE  UNCHANGED <<failures, sent, unblacklist, earned>>
  BY <1>4 DEF ReqStep, GotSerials, GotVersions, DeletePeer, ReqFails, StartReq,
              ReqUnchanged, notices
<1>5. QED
  BY <1>1, <1>2, <1>3, <1>4 DEF Next, LoopStep, PeerNext, NoticeStep

LEMMA FailuresStep ==
    ASSUME TypeOK, FailuresInv, [Next]_vars
    PROVE  FailuresInv'
<1>a. /\ MaxFailures \in Nat \ {0} /\ MaxInFlight \in Nat \ {0}
      /\ \A p \in Peers : failures[p] \in Nat /\ sent[p] \in Nat
      /\ failures \in [Peers -> Nat] /\ sent \in [Peers -> Nat]
  BY BoundsAssumption DEF TypeOK
<1>1. CASE UNCHANGED <<failures, sent>>
  BY <1>1 DEF FailuresInv
<1>2. ASSUME NEW B \in SUBSET Peers, NotifyPeers(B) PROVE FailuresInv'
  <2>1. failures' = failures
    BY <1>2 DEF NotifyPeers
  <2>2. ASSUME NEW p \in Peers
        PROVE  \/ sent'[p] = sent[p]
               \/ failures[p] < MaxFailures /\ sent'[p] = sent[p] + 1 /\ sent'[p] <= MaxInFlight
    BY <1>a, <1>2, <2>2 DEF NotifyPeers, Blacklisted
  <2>3. QED BY <1>a, <2>1, <2>2 DEF FailuresInv
<1>3. ASSUME NEW p \in Peers, NotifyOk(p) \/ NotifyFails(p) \/ Forgive(p) PROVE FailuresInv'
  <2>1. ASSUME NEW q \in Peers, sent'[q] > 0
        PROVE  sent[q] > 0 /\ failures'[q] + sent'[q] <= failures[q] + sent[q]
    <3>1. CASE q # p
      BY <1>a, <1>3, <2>1, <3>1 DEF NotifyOk, NotifyFails, Forgive
    <3>2. CASE q = p
      <4>1. CASE NotifyOk(p)
        BY <1>a, <2>1, <3>2, <4>1 DEF NotifyOk
      <4>2. CASE NotifyFails(p)
        BY <1>a, <2>1, <3>2, <4>2 DEF NotifyFails
      <4>3. CASE Forgive(p)
        BY <1>a, <2>1, <3>2, <4>3 DEF Forgive
      <4>4. QED BY <1>3, <4>1, <4>2, <4>3
    <3>3. QED BY <3>1, <3>2
  <2>2. \A q \in Peers : failures'[q] \in Nat /\ sent'[q] \in Nat
    BY <1>a, <1>3 DEF NotifyOk, NotifyFails, Forgive
  <2>3. QED BY <1>a, <2>1, <2>2 DEF FailuresInv
<1>4. ASSUME NEW p \in Peers, PeerAnswers(p) PROVE FailuresInv'
  BY <1>1, <1>4 DEF PeerAnswers, CheckUnchanged
<1>5. CASE Restart
  BY <1>5 DEF Restart, Fresh, FailuresInv
<1>6. QED BY <1>1, <1>2, <1>3, <1>4, <1>5, NoticesOrNot

LEMMA EarnedStep ==
    ASSUME TypeOK, EarnedInv, [Next]_vars
    PROVE  EarnedInv'
<1>1. CASE UNCHANGED <<failures, unblacklist, earned>>
  BY <1>1 DEF EarnedInv
<1>2. ASSUME NEW B \in SUBSET Peers, NotifyPeers(B) PROVE EarnedInv'
  BY <1>1, <1>2 DEF NotifyPeers
<1>3. ASSUME NEW p \in Peers, NotifyOk(p) PROVE EarnedInv'
  BY <1>3 DEF NotifyOk, TypeOK, EarnedInv
<1>4. ASSUME NEW p \in Peers, NotifyFails(p) PROVE EarnedInv'
  BY <1>4 DEF NotifyFails, TypeOK, EarnedInv
<1>5. ASSUME NEW p \in Peers, Forgive(p) PROVE EarnedInv'
  BY <1>5 DEF Forgive, TypeOK, EarnedInv
<1>6. ASSUME NEW p \in Peers, PeerAnswers(p) PROVE EarnedInv'
  BY <1>6 DEF PeerAnswers, CheckUnchanged, EarnedInv
<1>7. CASE Restart
  BY <1>7 DEF Restart, Fresh, EarnedInv
<1>8. QED BY <1>1, <1>2, <1>3, <1>4, <1>5, <1>6, <1>7, NoticesOrNot

-----------------------------------------------------------------------------
LEMMA InitInv == Init => IInv
<1> SUFFICES ASSUME Init PROVE IInv
  OBVIOUS
<1>1. TypeOK
  <2>1. /\ record \in [Peers -> Ages] /\ has \in [Peers -> Ages]
        /\ failures \in [Peers -> 0..(MaxFailures + MaxInFlight - 1)]
        /\ sent \in [Peers -> 0..MaxInFlight] /\ faults \in 0..MaxFaults
    BY BoundsAssumption DEF Init, Ages
  <2>2. /\ xfer \in [Peers -> XferRecord] /\ check \in [Peers -> CheckRecord]
    BY DEF Init, NoXfer, NoCheck, XferRecord, CheckRecord
  <2>3. QED
    BY <2>1, <2>2 DEF Init, TypeOK, XferRecord, CheckRecord, LoopStart, NoReq
<1>2. InLine = {LoopClaim} /\ Open = {LoopClaim}
  BY DEF Init, InLine, Open
<1>3. Distinct
  BY <1>2 DEF Init, Distinct, Claims
<1>4. HoldInv
  BY DEF Init, HoldInv, NoXfer, NoCheck, NoReq
<1>5. Kinds
  BY <1>2, ClaimsDiffer DEF Init, Kinds, Claims, LoopStart, NoXfer, NoCheck, NoReq
<1>6. FailuresInv /\ EarnedInv
  BY DEF Init, FailuresInv, EarnedInv
<1>7. QED BY <1>1, <1>3, <1>4, <1>5, <1>6, OpenKinds DEF IInv

LEMMA StepInv == IInv /\ [Next]_vars => IInv'
<1>1. NoLeak' <=> Kinds'
  BY OpenKinds, PTL
<1>2. QED
  BY <1>1, OpenKinds, TypeStep, PoolStep, FailuresStep, EarnedStep DEF IInv

LEMMA Invariance == Spec => []IInv
<1>1. Init => IInv
  BY InitInv
<1>2. IInv /\ [Next]_vars => IInv'
  BY StepInv
<1>3. QED BY <1>1, <1>2, PTL DEF Spec

(* TypeOK: the failures counted for a peer pass MAX_NOTIFY_FAILURES by     *)
(* fewer than the NOTIFYs under way, since a blacklisted peer is sent none *)
(* (notify and checkAndNotify of lib/dns-server.js).                       *)
THEOREM TypeCorrect == Spec => []TypeOK
<1>1. IInv => TypeOK
  BY DEF IInv
<1>2. QED BY <1>1, Invariance, PTL

(* NoLeak: every redis connection that is out or waited for belongs to the *)
(* loop, a transfer, a check or a request that will give it back, whatever *)
(* errors and timeouts there are on the way.                               *)
THEOREM ConnectionsKept == Spec => []NoLeak
<1>1. IInv => NoLeak
  BY DEF IInv
<1>2. QED BY <1>1, Invariance, PTL

(* BlacklistEnds: a blacklisted peer has a timer to take it off the list   *)
(* exactly if it has confirmed a transfer since its last failure, for any  *)
(* number of NOTIFYs under way and any order of their answers.             *)
THEOREM BlacklistCanEnd == Spec => []BlacklistEnds
<1>1. ASSUME IInv PROVE BlacklistEnds
  <2>1. \A p \in Peers : Blacklisted(p) => failures[p] # 0
    BY <1>1, BoundsAssumption DEF IInv, TypeOK, Blacklisted
  <2>2. QED BY <1>1, <2>1 DEF IInv, EarnedInv, BlacklistEnds
<1>2. QED BY <1>1, Invariance, PTL

=============================================================================
