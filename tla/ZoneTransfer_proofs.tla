------------------------ MODULE ZoneTransfer_proofs ------------------------
(***************************************************************************)
(* Proofs about ZoneTransfer, for all zones, changes, peers and bounds:    *)
(* what is on record of a peer is never ahead of it (RecordsAreHonest),    *)
(* the types (TypeCorrect), the collection spares the peers it knows       *)
(* (CollectionSparesPeers), and a peer has the zone of the serial it was   *)
(* given (PeersAreExact).                                                  *)
(***************************************************************************)
EXTENDS ZoneTransfer, SequenceTheorems, WellFoundedInduction, TLAPS

XferShape == /\ DOMAIN xfer = Peers
             /\ \A p \in Peers : {"stage", "serial"} \subseteq DOMAIN xfer[p]

(* A step on one transfer that keeps its serial.                           *)
SameSerials(p) ==
    /\ XferShape' /\ xfer[p].stage # "none"
    /\ \A q \in Peers : xfer'[q].serial = xfer[q].serial /\ (q # p => xfer'[q] = xfer[q])

LEMMA CheckArmed ==
    ASSUME SerialsInv, NEW p \in Peers, Finish(p) \/ UNCHANGED check
    PROVE  /\ DOMAIN check' = Peers
           /\ \A q \in Peers : \/ check'[q] = check[q]
                               \/ /\ {"stage", "answer"} \subseteq DOMAIN check'[q]
                                  /\ check'[q].stage = "armed" /\ check'[q].answer = 0
<1>1. ASSUME NEW c, c = [NoCheck EXCEPT !.stage = "armed", !.serial = xfer[p].serial],
             check' = [check EXCEPT ![p] = c]
      PROVE  /\ DOMAIN check' = Peers
             /\ {"stage", "answer"} \subseteq DOMAIN check'[p]
             /\ check'[p].stage = "armed" /\ check'[p].answer = 0
             /\ \A q \in Peers : q # p => check'[q] = check[q]
  BY <1>1 DEF SerialsInv, NoCheck
<1>2. QED BY <1>1 DEF SerialsInv, Finish

LEMMA SameXfers ==
    ASSUME IInv, NEW p \in Peers, Finish(p) \/ UNCHANGED check, SameSerials(p),
           UNCHANGED <<record, peer, job, latest, commits>>
    PROVE  IInv'
<1>1. SerialsInv'
  BY CheckArmed DEF IInv, SerialsInv, SameSerials, XferShape
<1>2. HonestInv'
  BY CheckArmed DEF IInv, HonestInv, SameSerials
<1>3. QED BY <1>1, <1>2 DEF IInv

(* The updater: nothing of this is about the peers.                        *)
LEMMA JobKeeps ==
    ASSUME IInv, (\E C \in Changes : StartJob(C)) \/ JobStep
    PROVE  IInv'
<1>1. UNCHANGED <<record, xfer, check, peer>>
  BY DEF StartJob, JobStep, PushRemoves, PushAdds, CommitName, PushAll, SetLatest, JobUnchanged
<1>2. latest' \in Nat /\ commits' \in Nat /\ "serial" \in DOMAIN job' /\ job'.serial \in Nat
  BY DEF StartJob, JobStep, PushRemoves, PushAdds, CommitName, PushAll, SetLatest,
         NoJob, SerialOf, redis, IInv, SerialsInv
<1>3. QED BY <1>1, <1>2 DEF IInv, SerialsInv, HonestInv

(* The transfers.                                                          *)
LEMMA XferKeeps ==
    ASSUME IInv, NEW p \in Peers, XferStep(p) \/ ReadFails(p)
    PROVE  IInv'
<1>1. CASE ListSerials(p)
  <2> DEFINE chain == Chain(all, xfer[p].base)
             stage == IF chain = <<>> THEN "scan" ELSE "removes"
  <2>1. /\ xfer' = [xfer EXCEPT ![p].todo = chain, ![p].stage = stage]
        /\ xfer[p].stage # "none" /\ UNCHANGED <<check, record, peer, job, latest, commits>>
    BY <1>1 DEF ListSerials, XferUnchanged, redis
  <2> HIDE DEF chain, stage
  <2>2. SameSerials(p)
    BY <2>1 DEF SameSerials, XferShape, IInv, SerialsInv
  <2>3. QED BY <2>1, <2>2, SameXfers
<1>2. ASSUME NEW R, NEW g, xfer[p].stage = "removes",
             xfer' = [xfer EXCEPT ![p].stage = "adds", ![p].recs = R, ![p].gap = g],
             UNCHANGED <<check, record, peer, job, latest, commits>>
      PROVE  IInv'
  <2>1. SameSerials(p)
    BY <1>2 DEF SameSerials, XferShape, IInv, SerialsInv
  <2>2. QED BY <1>2, <2>1, SameXfers
<1>3. CASE ReadRemoves(p)
  <2> DEFINE pair == Head(xfer[p].todo)
             R == DiffList(pair, "remove")
             g == xfer[p].gap \/ Gone(pair)
  <2>1. /\ xfer[p].stage = "removes"
        /\ xfer' = [xfer EXCEPT ![p].stage = "adds", ![p].recs = R, ![p].gap = g]
        /\ UNCHANGED <<check, record, peer, job, latest, commits>>
    BY <1>3 DEF ReadRemoves, XferUnchanged, redis
  <2> HIDE DEF pair, R, g
  <2>2. QED BY <1>2, <2>1
<1>4. ASSUME NEW R, NEW g, xfer[p].stage = "adds", SendDiff(p, R, g),
             UNCHANGED <<record, peer, job, latest, commits>>
      PROVE  IInv'
  <2>1. SameSerials(p) /\ (Finish(p) \/ UNCHANGED check)
    BY <1>4 DEF SendDiff, SameSerials, XferShape, IInv, SerialsInv
  <2>2. QED BY <1>4, <2>1, SameXfers
<1>5. ASSUME NEW n \in Names, ReadName(p, n) PROVE IInv'
  <2>1. SameSerials(p) /\ (Finish(p) \/ UNCHANGED check)
    BY <1>5 DEF ReadName, SameSerials, XferShape, IInv, SerialsInv
  <2>2. QED BY <1>5, <2>1, SameXfers DEF ReadName, XferUnchanged, redis
<1>6. CASE PeerTakes(p)
  <2>1. /\ UNCHANGED <<record, check, job, latest, commits>>
        /\ xfer' = [xfer EXCEPT ![p] = NoXfer] /\ xfer[p].stage = "sent"
    BY <1>6 DEF PeerTakes, XferUnchanged, redis
  <2>2. PICK c : /\ peer' = [peer EXCEPT ![p] = c] /\ "serial" \in DOMAIN c
                 /\ c.serial \in {xfer[p].serial, peer[p].serial}
    <3> DEFINE x == xfer[p]
               whole == [serial |-> x.serial, recs |-> x.recs, axfr |-> FALSE,
                         gap |-> x.gap]
               steps == [serial |-> x.serial, recs |-> ApplyAll(peer[p].recs, x.sent),
                         axfr |-> FALSE, gap |-> peer[p].gap \/ x.gap]
               again == [peer[p] EXCEPT !.axfr = TRUE]
    <3>1. CASE x.sent = <<>>
      <4>1. peer' = [peer EXCEPT ![p] = whole]
        BY <1>6, <3>1 DEF PeerTakes
      <4>2. "serial" \in DOMAIN whole /\ whole.serial = xfer[p].serial
        OBVIOUS
      <4> HIDE DEF whole
      <4>3. QED BY <4>1, <4>2
    <3>2. CASE x.sent # <<>> /\ Leads(x)
      <4>1. peer' = [peer EXCEPT ![p] = steps]
        BY <1>6, <3>2 DEF PeerTakes
      <4>2. "serial" \in DOMAIN steps /\ steps.serial = xfer[p].serial
        OBVIOUS
      <4> HIDE DEF steps
      <4>3. QED BY <4>1, <4>2
    <3>3. CASE x.sent # <<>> /\ ~Leads(x)
      <4>1. peer' = [peer EXCEPT ![p] = again]
        BY <1>6, <3>3 DEF PeerTakes
      <4>2. "serial" \in DOMAIN again /\ again.serial = peer[p].serial
        BY DEF IInv, SerialsInv
      <4> HIDE DEF again
      <4>3. QED BY <4>1, <4>2
    <3>4. QED BY <3>1, <3>2, <3>3
  <2>3. /\ DOMAIN xfer' = Peers
        /\ \A q \in Peers : /\ {"stage", "serial"} \subseteq DOMAIN xfer'[q]
                            /\ xfer'[q].serial \in Nat
                            /\ xfer'[q] = xfer[q] \/ xfer'[q].stage = "none"
    BY <2>1 DEF IInv, SerialsInv, NoXfer
  <2>4. /\ DOMAIN peer' = Peers
        /\ \A q \in Peers : /\ "serial" \in DOMAIN peer'[q] /\ peer'[q].serial \in Nat
                            /\ peer[q].serial <= peer'[q].serial
                            /\ q # p => peer'[q] = peer[q]
    BY <2>1, <2>2 DEF IInv, SerialsInv, HonestInv
  <2>5. SerialsInv'
    BY <2>1, <2>3, <2>4 DEF IInv, SerialsInv
  <2>6. xfer'[p].stage = "none"
    BY <2>1 DEF IInv, SerialsInv, NoXfer
  <2>7. HonestInv'
    BY <2>1, <2>3, <2>4, <2>6 DEF IInv, SerialsInv, HonestInv
  <2>8. QED BY <2>5, <2>7 DEF IInv
<1>7. CASE ReadFails(p)
  <2>1. UNCHANGED <<record, peer, job, latest, commits>>
    BY <1>7 DEF ReadFails, XferUnchanged, redis
  <2>2. CASE xfer[p].stage = "list" /\ xfer' = [xfer EXCEPT ![p] = NoXfer] /\ UNCHANGED check
    BY <2>1, <2>2 DEF IInv, SerialsInv, HonestInv, NoXfer
  <2>3. CASE /\ xfer[p].stage = "removes"
             /\ xfer' = [xfer EXCEPT ![p].stage = "adds", ![p].recs = {}, ![p].gap = TRUE]
             /\ UNCHANGED check
    BY <1>2, <2>1, <2>3
  <2>4. CASE /\ xfer[p].stage = "scan"
             /\ xfer' = [xfer EXCEPT ![p].stage = "sent", ![p].gap = TRUE]
             /\ Finish(p)
    <3>1. SameSerials(p)
      BY <2>4 DEF SameSerials, XferShape, IInv, SerialsInv
    <3>2. QED BY <2>1, <2>4, <3>1, SameXfers
  <2>5. CASE xfer[p].stage = "adds" /\ SendDiff(p, {}, TRUE)
    BY <1>4, <2>1, <2>5
  <2>6. QED BY <1>7, <2>2, <2>3, <2>4, <2>5 DEF ReadFails
<1>8. CASE ReadAdds(p)
  BY <1>4, <1>8 DEF ReadAdds, XferUnchanged, redis
<1>9. QED BY <1>1, <1>3, <1>5, <1>6, <1>7, <1>8 DEF XferStep

LEMMA AskKeeps ==
    ASSUME IInv, NEW p \in Peers, Ask(p)
    PROVE  IInv'
<1>1. peer[p].serial <= latest /\ latest \in Nat /\ peer[p].serial \in Nat
  BY DEF Ask, IInv, SerialsInv
<1>2. PICK s \in Nat, d \in BOOLEAN : Begin(p, s, d) /\ peer[p].serial <= s
  <2>1. CASE latest # 0 /\ Begin(p, latest, FALSE)
    BY <1>1, <2>1
  <2>2. ASSUME NEW s \in Defaults, s + 1 > peer[p].serial,
               Begin(p, s, TRUE)
        PROVE  \E u \in Nat, d \in BOOLEAN : Begin(p, u, d) /\ peer[p].serial <= u
    <3>1. s \in Nat /\ peer[p].serial <= s
      BY <1>1, <2>2, PeersAssumption
    <3>2. QED BY <2>2, <3>1
  <2>3. CASE latest = 0 /\ \E s \in Defaults : Begin(p, s, TRUE)
    <3>1. PICK s \in Defaults : Begin(p, s, TRUE)
      BY <2>3
    <3>2. s + 1 > peer[p].serial
      BY <1>1, <2>3, PeersAssumption
    <3>3. QED BY <2>2, <3>1, <3>2
  <2>4. CASE latest # 0 /\ \E s \in Defaults : s + 1 >= latest /\ Begin(p, s, TRUE)
    <3>1. PICK s \in Defaults : s + 1 >= latest /\ Begin(p, s, TRUE)
      BY <2>4
    <3>2. s + 1 > peer[p].serial
      BY <1>1, <3>1, PeersAssumption DEF Ask
    <3>3. QED BY <2>2, <3>1, <3>2
  <2>5. QED BY <2>1, <2>3, <2>4 DEF Ask
<1>3. UNCHANGED <<record, check, peer, job, latest, commits>>
  BY DEF Ask, XferUnchanged, redis
<1>4. SerialsInv'
  BY <1>2, <1>3 DEF IInv, SerialsInv, Begin, NoXfer
<1>5. xfer'[p].serial = s /\ \A q \in Peers : q # p => xfer'[q] = xfer[q]
  BY <1>2 DEF IInv, SerialsInv, Begin, NoXfer
<1>6. HonestInv'
  BY <1>2, <1>3, <1>5 DEF IInv, HonestInv
<1>7. QED BY <1>4, <1>6 DEF IInv

(* The checks, and DELETE.                                                 *)
LEMMA CheckKeeps ==
    ASSUME IInv, NEW p \in Peers, CheckStep(p) \/ DeletePeer(p)
    PROVE  IInv'
<1>1. UNCHANGED <<xfer, peer, job, latest, commits>>
  BY DEF CheckStep, PeerAnswers, NoAnswer, SaveSerial, CheckDone, DeletePeer,
         CheckUnchanged, redis
<1>2. ASSUME NEW c, {"stage", "answer"} \subseteq DOMAIN c, c.answer \in Nat,
             c.stage \in {"answered", "saved"} => c.answer <= peer[p].serial,
             check' = [check EXCEPT ![p] = c] \/ UNCHANGED check,
             record' \in [Peers -> Nat],
             \A q \in Peers : record'[q] <= peer[q].serial
      PROVE  IInv'
  <2>1. SerialsInv'
    BY <1>1, <1>2 DEF IInv, SerialsInv
  <2>2. HonestInv'
    BY <1>1, <1>2 DEF IInv, SerialsInv, HonestInv
  <2>3. QED BY <2>1, <2>2 DEF IInv
<1>3. CASE PeerAnswers(p)
  <2> DEFINE c == [check[p] EXCEPT !.stage = "answered", !.answer = peer[p].serial]
  <2>1. check' = [check EXCEPT ![p] = c] /\ UNCHANGED record
    BY <1>3 DEF PeerAnswers
  <2>2. /\ {"stage", "answer"} \subseteq DOMAIN c
        /\ c.answer = peer[p].serial /\ c.answer \in Nat
    BY DEF IInv, SerialsInv
  <2>3. c.answer <= peer[p].serial
    BY <2>2 DEF IInv, SerialsInv
  <2> HIDE DEF c
  <2>4. QED BY <1>2, <2>1, <2>2, <2>3 DEF IInv, SerialsInv, HonestInv
<1>4. CASE NoAnswer(p)
  <2>1. check' = [check EXCEPT ![p] = NoCheck] /\ UNCHANGED record
    BY <1>4 DEF NoAnswer
  <2>2. /\ {"stage", "answer"} \subseteq DOMAIN NoCheck
        /\ NoCheck.answer \in Nat /\ NoCheck.stage = "none"
    BY DEF NoCheck
  <2>3. QED BY <1>2, <2>1, <2>2 DEF IInv, SerialsInv, HonestInv
<1>5. CASE SaveSerial(p)
  <2> DEFINE c == [check[p] EXCEPT !.stage = "saved"]
  <2>1. /\ check' = [check EXCEPT ![p] = c] /\ check[p].stage = "answered"
        /\ record' = [record EXCEPT ![p] = check[p].answer]
    BY <1>5 DEF SaveSerial
  <2>2. /\ {"stage", "answer"} \subseteq DOMAIN c
        /\ c.answer = check[p].answer /\ c.answer \in Nat
    BY DEF IInv, SerialsInv
  <2>3. c.answer <= peer[p].serial
    BY <2>1, <2>2 DEF IInv, SerialsInv, HonestInv
  <2>4. /\ record' \in [Peers -> Nat]
        /\ \A q \in Peers : record'[q] <= peer[q].serial
    BY <2>1 DEF IInv, SerialsInv, HonestInv
  <2> HIDE DEF c
  <2>5. QED BY <1>2, <2>1, <2>2, <2>3, <2>4
<1>6. CASE CheckDone(p)
  <2> DEFINE again == [NoCheck EXCEPT !.stage = "armed", !.serial = check[p].serial]
             c == IF check[p].answer < check[p].serial THEN again ELSE NoCheck
  <2>1. check' = [check EXCEPT ![p] = c] /\ UNCHANGED record
    BY <1>6 DEF CheckDone
  <2>2. /\ {"stage", "answer"} \subseteq DOMAIN c
        /\ c.answer \in Nat /\ c.stage \notin {"answered", "saved"}
    BY DEF NoCheck
  <2> HIDE DEF c
  <2>3. record' \in [Peers -> Nat] /\ \A q \in Peers : record'[q] <= peer[q].serial
    BY <2>1 DEF IInv, SerialsInv, HonestInv
  <2>4. QED BY <1>2, <2>1, <2>2, <2>3
<1>7. CASE DeletePeer(p)
  <2>1. UNCHANGED check /\ record' = [record EXCEPT ![p] = 0]
    BY <1>7 DEF DeletePeer
  <2>2. /\ record' \in [Peers -> Nat]
        /\ \A q \in Peers : record'[q] <= peer[q].serial
    BY <2>1 DEF IInv, SerialsInv, HonestInv
  <2>3. QED BY <1>2, <2>1, <2>2 DEF IInv, SerialsInv, HonestInv
<1>8. QED BY <1>3, <1>4, <1>5, <1>6, <1>7 DEF CheckStep

LEMMA StepInv == IInv /\ [Next]_vars => IInv'
<1> SUFFICES ASSUME IInv, [Next]_vars PROVE IInv'
  OBVIOUS
<1>1. CASE GCStep \/ UNCHANGED vars
  <2>1. UNCHANGED <<record, xfer, check, peer, job, latest, commits>>
    BY <1>1 DEF GCStep, ReadZones, ReadPeers, Collect, DropKeys, RemSerial, GCUnchanged,
                bounds, redis, vars
  <2>2. QED BY <2>1 DEF IInv, SerialsInv, HonestInv
<1>2. CASE Restart
  <2>1. /\ UNCHANGED <<record, peer, job, latest, commits>>
        /\ xfer' = [p \in Peers |-> NoXfer] /\ check' = [p \in Peers |-> NoCheck]
    BY <1>2 DEF Restart, redis
  <2>2. QED BY <2>1 DEF IInv, SerialsInv, HonestInv, NoXfer, NoCheck
<1>3. QED BY <1>1, <1>2, JobKeeps, AskKeeps, XferKeeps, CheckKeeps DEF Next

LEMMA InitInv == Init => IInv
  BY DEF Init, IInv, SerialsInv, HonestInv, NoJob, NoXfer, NoCheck

(* RecordIsHonest: the serial in peer:<address> is never beyond the zone   *)
(* the peer has, whatever reads fail and however often the server dies     *)
(* (doPeerChecks and handleTransfer of lib/dns-server.js).                 *)
THEOREM RecordsAreHonest == Spec => []RecordIsHonest
<1>1. Init => IInv
  BY InitInv
<1>2. IInv /\ [Next]_vars => IInv'
  BY StepInv
<1>3. IInv => RecordIsHonest
  BY DEF IInv, HonestInv, RecordIsHonest
<1>4. QED BY <1>1, <1>2, <1>3, PTL DEF Spec

-----------------------------------------------------------------------------
(* Sequences of serials.                                                   *)

LEMMA Least ==
    ASSUME NEW S \in SUBSET Nat, S # {}
    PROVE  \E m \in S : \A n \in S : m <= n
<1> DEFINE R == {ss \in Nat \X Nat : ss[1] < ss[2]}
<1>1. IsWellFoundedOn(R, Nat)
  BY NatLessThanWellFounded DEF OpToRel
<1>2. PICK m \in S : \A n \in S : ~ (<<n, m>> \in R)
  BY <1>1, WFMin
<1>3. \A n \in S : ~ (n < m)
  BY <1>2
<1>4. QED BY <1>3

LEMMA Greatest ==
    ASSUME NEW n \in Nat, NEW S \in SUBSET (1..n), S # {}
    PROVE  \E m \in S : \A k \in S : k <= m
<1> DEFINE T == {k \in Nat : \A i \in S : i <= k}
<1>1. n \in T
  OBVIOUS
<1>2. PICK m \in T : \A k \in T : m <= k
  BY <1>1, Least
<1>3. m \in S
  <2>1. SUFFICES ASSUME m \notin S PROVE FALSE
    OBVIOUS
  <2>2. \A i \in S : i \in Nat /\ i >= 1 /\ i <= m /\ i # m
    BY <2>1
  <2>3. m - 1 \in Nat
    <3>1. PICK i \in S : TRUE
      OBVIOUS
    <3>2. QED BY <2>2, <3>1
  <2>4. \A i \in S : i <= m - 1
    BY <2>2
  <2>5. m - 1 \in T
    BY <2>3, <2>4
  <2>6. QED BY <1>2, <2>5
<1>4. QED BY <1>2, <1>3

Increasing(s) == \A i, j \in 1..Len(s) : i < j => s[i] < s[j]

(* What lrem leaves.                                                       *)
LEMMA WithoutOf ==
    ASSUME NEW s \in Seq(Nat), NEW x, \E i \in 1..Len(s) : s[i] = x
    PROVE  \E m \in 1..Len(s) :
              /\ s[m] = x /\ Without(s, x) \in Seq(Nat)
              /\ Len(Without(s, x)) = Len(s) - 1
              /\ \A k \in 1..(Len(s) - 1) :
                    Without(s, x)[k] = IF k < m THEN s[k] ELSE s[k + 1]
<1> DEFINE First(m) == s[m] = x /\ \A j \in 1..(m - 1) : s[j] # x
           m == CHOOSE k \in 1..Len(s) : First(k)
<1>1. \E k \in 1..Len(s) : First(k)
  <2> DEFINE S == {k \in 1..Len(s) : s[k] = x}
  <2>1. PICK k \in S : \A j \in S : k <= j
    <3>1. S # {} /\ S \in SUBSET Nat
      OBVIOUS
    <3>2. QED BY <3>1, Least
  <2>2. \A j \in 1..(k - 1) : j \in 1..Len(s) /\ j < k
    OBVIOUS
  <2>3. First(k)
    BY <2>1, <2>2
  <2>4. QED BY <2>3
<1>2. m \in 1..Len(s) /\ First(m)
  BY <1>1
<1> DEFINE a == SubSeq(s, 1, m - 1)
           b == SubSeq(s, m + 1, Len(s))
<1>3. Without(s, x) = a \o b
  BY DEF Without
<1> HIDE DEF m, First
<1>4. /\ a \in Seq(Nat) /\ Len(a) = m - 1 /\ \A k \in 1..(m - 1) : a[k] = s[k]
  BY <1>2
<1>5. /\ b \in Seq(Nat) /\ Len(b) = Len(s) - m
      /\ \A k \in 1..(Len(s) - m) : b[k] = s[m + k]
  BY <1>2
<1>6. Len(s) \in Nat /\ m \in Nat /\ m >= 1 /\ m <= Len(s)
  BY <1>2
<1> HIDE DEF a, b
<1>7. /\ a \o b \in Seq(Nat) /\ Len(a \o b) = Len(s) - 1
      /\ \A k \in 1..(Len(s) - 1) : (a \o b)[k] = IF k <= m - 1 THEN a[k] ELSE b[k - (m - 1)]
  <2>1. /\ a \o b \in Seq(Nat) /\ Len(a \o b) = Len(a) + Len(b)
        /\ \A k \in 1..(Len(a) + Len(b)) :
              (a \o b)[k] = IF k <= Len(a) THEN a[k] ELSE b[k - Len(a)]
    BY <1>4, <1>5, ConcatProperties
  <2>2. Len(a) + Len(b) = Len(s) - 1
    BY <1>4, <1>5, <1>6
  <2>3. QED BY <1>4, <2>1, <2>2
<1>8. ASSUME NEW k \in 1..(Len(s) - 1)
      PROVE  (a \o b)[k] = IF k < m THEN s[k] ELSE s[k + 1]
  <2>1. CASE k < m
    <3>1. k \in 1..(m - 1) /\ k <= m - 1
      BY <1>6, <2>1
    <3>2. QED BY <1>4, <1>7, <2>1, <3>1
  <2>2. CASE ~ (k < m)
    <3>1. k - (m - 1) \in 1..(Len(s) - m) /\ ~ (k <= m - 1) /\ m + (k - (m - 1)) = k + 1
      BY <1>6, <2>2
    <3>2. QED BY <1>5, <1>7, <2>2, <3>1
  <2>3. QED BY <2>1, <2>2
<1>9. s[m] = x
  BY <1>2 DEF First
<1>10. QED BY <1>2, <1>3, <1>7, <1>8, <1>9

LEMMA WithoutKeeps ==
    ASSUME NEW s \in Seq(Nat), NEW x
    PROVE  /\ Without(s, x) \in Seq(Nat)
           /\ \A k \in 1..Len(Without(s, x)) : \E i \in 1..Len(s) : Without(s, x)[k] = s[i]
           /\ \A i \in 1..Len(s) : s[i] # x =>
                 \E k \in 1..Len(Without(s, x)) : Without(s, x)[k] = s[i]
           /\ Increasing(s) => Increasing(Without(s, x))
<1>1. CASE \A i \in 1..Len(s) : s[i] # x
  <2>1. Without(s, x) = s
    BY <1>1 DEF Without
  <2>2. QED BY <2>1
<1>2. ASSUME \E i \in 1..Len(s) : s[i] = x
      PROVE  /\ Without(s, x) \in Seq(Nat)
             /\ \A k \in 1..Len(Without(s, x)) : \E j \in 1..Len(s) : Without(s, x)[k] = s[j]
             /\ \A j \in 1..Len(s) : s[j] # x =>
                   \E k \in 1..Len(Without(s, x)) : Without(s, x)[k] = s[j]
             /\ Increasing(s) => Increasing(Without(s, x))
  <2> DEFINE w == Without(s, x)
             n == Len(s)
  <2>1. PICK m \in 1..n : /\ s[m] = x /\ w \in Seq(Nat) /\ Len(w) = n - 1
                          /\ \A k \in 1..(n - 1) : w[k] = IF k < m THEN s[k] ELSE s[k + 1]
    BY <1>2, WithoutOf
  <2> HIDE DEF w
  <2>0. n \in Nat
    OBVIOUS
  <2> HIDE DEF n
  <2>2. \A k \in 1..(n - 1) : k \in 1..n /\ k + 1 \in 1..n
    BY <2>0
  <2>3. \A k \in 1..Len(w) : \E j \in 1..n : w[k] = s[j]
    BY <2>1, <2>2
  <2>4. ASSUME NEW j \in 1..n, s[j] # x PROVE \E k \in 1..Len(w) : w[k] = s[j]
    <3>1. CASE j < m
      <4>1. j \in 1..(n - 1)
        BY <2>0, <3>1
      <4>2. QED BY <2>1, <3>1, <4>1
    <3>2. CASE j > m
      <4>1. j - 1 \in 1..(n - 1) /\ ~ (j - 1 < m) /\ (j - 1) + 1 = j
        BY <2>0, <3>2
      <4>2. QED BY <2>1, <4>1
    <3>3. j # m
      BY <2>1, <2>4
    <3>4. QED BY <2>0, <3>1, <3>2, <3>3
  <2>5. ASSUME Increasing(s), NEW j \in 1..(n - 1), NEW k \in 1..(n - 1), j < k
        PROVE  w[j] < w[k]
    <3> DEFINE J == IF j < m THEN j ELSE j + 1
               K == IF k < m THEN k ELSE k + 1
    <3>1. J \in 1..n /\ K \in 1..n /\ J < K
      BY <2>0, <2>5
    <3>2. w[j] = s[J] /\ w[k] = s[K]
      BY <2>1
    <3> HIDE DEF J, K
    <3>3. QED BY <2>5, <3>1, <3>2 DEF Increasing, n
  <2>6. Increasing(s) => Increasing(w)
    BY <2>1, <2>5 DEF Increasing
  <2>7. QED BY <2>1, <2>3, <2>4, <2>6 DEF w, n
<1>3. QED BY <1>1, <1>2

(* The steps from one listed serial to the next that a peer is sent.       *)
LEMMA StartsOf ==
    ASSUME NEW s \in Seq(Nat), Increasing(s), NEW base \in Nat, Starts(s, base) # {}
    PROVE  \E f \in 1..(Len(s) - 1) :
             /\ Chain(s, base) = [k \in 1..(Len(s) - f) |-> <<s[f + k - 1], s[f + k]>>]
             /\ \A i \in 1..Len(s) : /\ i > f => s[i] >= base
                                     /\ s[f] >= base \/ s[i] <= s[f] \/ s[i] >= base
<1> DEFINE S == Starts(s, base)
           f == CHOOSE i \in S : \A j \in S : i <= j
<1>0. Len(s) \in Nat /\ \A i \in 1..Len(s) : s[i] \in Nat
  OBVIOUS
<1>1. S \in SUBSET Nat /\ \A i \in S : /\ i \in 1..(Len(s) - 1)
                                       /\ \/ s[i] = base
                                          \/ s[i] < base /\ i + 1 < Len(s) /\ s[i + 1] > base
  BY DEF Starts
<1>2. f \in S
  <2>1. \E i \in S : \A j \in S : i <= j
    BY <1>1, Least
  <2>2. QED BY <2>1
<1>3. Chain(s, base) = [k \in 1..(Len(s) - f) |-> <<s[f + k - 1], s[f + k]>>]
  BY DEF Chain
<1> HIDE DEF S, f
<1>4. f \in 1..(Len(s) - 1)
  BY <1>1, <1>2
<1>5. ASSUME NEW i \in 1..Len(s), i > f PROVE s[i] >= base
  <2>1. f \in 1..Len(s) /\ f + 1 \in 1..Len(s) /\ s[f] < s[i]
    BY <1>0, <1>4, <1>5 DEF Increasing
  <2>2. i # f + 1 => s[f + 1] < s[i]
    BY <1>0, <1>4, <1>5, <2>1 DEF Increasing
  <2>3. s[f] \in Nat /\ s[f + 1] \in Nat /\ s[i] \in Nat
    BY <1>0, <2>1
  <2>4. s[f] = base \/ s[f + 1] > base
    BY <1>1, <1>2
  <2>5. QED BY <2>1, <2>2, <2>3, <2>4
<1>6. ASSUME NEW i \in 1..Len(s) PROVE s[f] >= base \/ s[i] <= s[f] \/ s[i] >= base
  <2>1. i > f \/ i = f \/ i < f
    BY <1>0, <1>4
  <2>2. f \in 1..Len(s)
    BY <1>0, <1>4
  <2>3. i < f => s[i] < s[f]
    BY <2>2 DEF Increasing
  <2>4. QED BY <1>0, <1>5, <2>1, <2>2, <2>3
<1>7. QED BY <1>3, <1>4, <1>5, <1>6

LEMMA ChainOf ==
    ASSUME NEW s \in Seq(Nat), Increasing(s), NEW base \in Nat
    PROVE  LET c == Chain(s, base) IN
           /\ c \in Seq(Nat \X Nat)
           /\ \A i \in 1..Len(c) : \A k \in {1, 2} :
                 /\ \E j \in 1..Len(s) : c[i][k] = s[j]
                 /\ \/ c[i][k] >= base
                    \/ \A j \in 1..Len(s) : s[j] <= c[i][k] \/ s[j] >= base
           /\ \A i \in 1..(Len(c) - 1) : c[i][2] = c[i + 1][1]
<1> DEFINE c == Chain(s, base)
<1>0. Len(s) \in Nat /\ \A i \in 1..Len(s) : s[i] \in Nat
  OBVIOUS
<1>1. CASE Starts(s, base) = {}
  <2> DEFINE n == Len(s) - Len(s)
  <2>1. c = [k \in 1..n |-> <<s[Len(s) + k - 1], s[Len(s) + k]>>]
    BY <1>1 DEF Chain
  <2>2. n = 0
    BY <1>0
  <2> HIDE DEF n, c
  <2>3. 1..0 = {}
    OBVIOUS
  <2>4. c = <<>>
    BY <2>1, <2>2, <2>3
  <2>5. QED BY <2>4 DEF c
<1>2. CASE Starts(s, base) # {}
  <2>1. PICK f \in 1..(Len(s) - 1) :
             /\ c = [k \in 1..(Len(s) - f) |-> <<s[f + k - 1], s[f + k]>>]
             /\ \A i \in 1..Len(s) : /\ i > f => s[i] >= base
                                     /\ s[f] >= base \/ s[i] <= s[f] \/ s[i] >= base
    BY <1>2, StartsOf
  <2> DEFINE n == Len(s) - f
  <2>2. n \in Nat /\ \A k \in 1..n : /\ f + k - 1 \in 1..Len(s) /\ f + k \in 1..Len(s)
                                     /\ f + k > f /\ (f + k - 1 = f \/ f + k - 1 > f)
    BY <1>0, <2>1
  <2> DEFINE g(k) == <<s[f + k - 1], s[f + k]>>
  <2>3. c = [k \in 1..n |-> g(k)] /\ \A k \in 1..n : g(k) \in Nat \X Nat
    BY <1>0, <2>1, <2>2
  <2> HIDE DEF c, n, g
  <2>4. /\ c \in Seq(Nat \X Nat) /\ Len(c) = n
        /\ \A k \in 1..n : c[k] = g(k)
    BY <2>2, <2>3
  <2>5. ASSUME NEW i \in 1..n, NEW k \in {1, 2}
        PROVE  /\ \E j \in 1..Len(s) : c[i][k] = s[j]
               /\ \/ c[i][k] >= base
                  \/ \A j \in 1..Len(s) : s[j] <= c[i][k] \/ s[j] >= base
    <3>1. c[i][1] = s[f + i - 1] /\ c[i][2] = s[f + i]
      BY <2>4 DEF g
    <3>2. QED BY <2>1, <2>2, <3>1
  <2>6. ASSUME NEW i \in 1..(n - 1) PROVE c[i][2] = c[i + 1][1]
    <3>1. i \in 1..n /\ i + 1 \in 1..n /\ f + (i + 1) - 1 = f + i
      BY <2>2, <2>1
    <3>2. c[i] = g(i) /\ c[i + 1] = g(i + 1)
      BY <2>4, <3>1
    <3>3. g(i)[2] = s[f + i] /\ g(i + 1)[1] = s[f + (i + 1) - 1]
      BY DEF g
    <3>4. QED BY <3>1, <3>2, <3>3
  <2>7. QED BY <2>4, <2>5, <2>6 DEF c
<1>3. QED BY <1>1, <1>2

-----------------------------------------------------------------------------
(* What each step of a transfer does to it.                                *)

LEMMA Fields ==
    ASSUME TypeOK
    PROVE  /\ latest \in Nat /\ all \in Seq(Nat) /\ content \subseteq Records
           /\ job \in Jobs /\ job.serial \in Nat
           /\ \A e \in diffs : /\ e.from \in Nat /\ e.to \in Nat
                               /\ e.rec \in Records /\ e.op \in {"remove", "add"}
           /\ \A p \in Peers : xfer[p] \in Xfers /\ peer[p] \in Copies /\ check[p] \in Checks
           /\ \A p \in Peers : record[p] \in Nat /\ peer[p].serial \in Nat
  BY DEF TypeOK, Jobs, Copies

(* The transfer to p alone.                                                *)
OnlyXfer(p) ==
    /\ \A q \in Peers \ {p} : xfer'[q] = xfer[q]
    /\ UNCHANGED <<content, latest, all, diffs, record, job, gc, version, commits>>

(* The changes of fields that keep the rest of a transfer.                 *)
SameAim(x, y) == y.base = x.base /\ y.serial = x.serial

LEMMA NoXferType == NoXfer \in Xfers
  BY DEF NoXfer, Xfers

LEMMA AskOf ==
    ASSUME TypeOK, NEW p \in Peers, Ask(p)
    PROVE  /\ OnlyXfer(p) /\ UNCHANGED <<peer, check>> /\ xfer[p].stage = "none"
           /\ xfer' \in [Peers -> Xfers]
           /\ \/ xfer'[p].serial = latest /\ latest # 0
              \/ xfer'[p].serial \in Defaults /\ xfer'[p].gap
           /\ xfer'[p].stage \in {"list", "scan"} /\ xfer'[p].base = peer[p].serial
           /\ xfer'[p].base = 0 \/ xfer'[p].base < latest
           /\ xfer'[p].todo = <<>> /\ xfer'[p].sent = <<>>
           /\ xfer'[p].left = Names /\ xfer'[p].recs = {}
<1>1. ASSUME NEW s \in Nat, NEW d \in BOOLEAN, Begin(p, s, d)
      PROVE  /\ xfer' \in [Peers -> Xfers] /\ \A q \in Peers \ {p} : xfer'[q] = xfer[q]
             /\ xfer'[p].serial = s /\ xfer'[p].gap = d
             /\ xfer'[p].stage \in {"list", "scan"} /\ xfer'[p].base = peer[p].serial
             /\ xfer'[p].todo = <<>> /\ xfer'[p].sent = <<>>
             /\ xfer'[p].left = Names /\ xfer'[p].recs = {}
  <2> DEFINE st == IF peer[p].axfr THEN "scan" ELSE "list"
             x == [NoXfer EXCEPT !.stage = st, !.serial = s, !.base = peer[p].serial,
                                 !.left = Names, !.gap = d]
  <2>1. st \in {"scan", "list"} /\ peer[p].serial \in Nat
    BY Fields
  <2>2. xfer' = [xfer EXCEPT ![p] = x]
    BY <1>1 DEF Begin
  <2> HIDE DEF st
  <2>3. x \in Xfers
    BY <2>1, NoXferType DEF Xfers
  <2>4. /\ x.serial = s /\ x.gap = d /\ x.stage = st /\ x.base = peer[p].serial
        /\ x.todo = <<>> /\ x.sent = <<>> /\ x.left = Names /\ x.recs = {}
    BY DEF NoXfer
  <2> HIDE DEF x
  <2>5. /\ xfer' \in [Peers -> Xfers] /\ xfer'[p] = x
        /\ \A q \in Peers \ {p} : xfer'[q] = xfer[q]
    BY <2>2, <2>3 DEF TypeOK
  <2>6. QED BY <2>1, <2>4, <2>5
<1>2. PICK s \in Nat, d \in BOOLEAN : /\ Begin(p, s, d)
                                      /\ (s = latest /\ latest # 0) \/ (s \in Defaults /\ d)
  <2>1. Defaults \subseteq Nat /\ latest \in Nat
    BY PeersAssumption, Fields
  <2>2. CASE latest # 0 /\ Begin(p, latest, FALSE)
    BY <2>1, <2>2
  <2>3. CASE \E s \in Defaults : Begin(p, s, TRUE)
    BY <2>1, <2>3
  <2>4. QED BY <2>2, <2>3 DEF Ask
<1>3. peer[p].serial = 0 \/ peer[p].serial < latest
  BY Fields DEF Ask
<1>4. /\ UNCHANGED <<content, latest, all, diffs, record, job, gc, version, commits>>
      /\ UNCHANGED <<peer, check>> /\ xfer[p].stage = "none"
  BY DEF Ask, XferUnchanged, redis
<1>5. QED BY <1>1, <1>2, <1>3, <1>4 DEF OnlyXfer

LEMMA ListOf ==
    ASSUME TypeOK, Increasing(all), NEW p \in Peers, ListSerials(p)
    PROVE  /\ OnlyXfer(p) /\ UNCHANGED <<peer, check>> /\ xfer[p].stage = "list"
           /\ xfer' \in [Peers -> Xfers] /\ SameAim(xfer[p], xfer'[p])
           /\ xfer'[p].todo = Chain(all, xfer[p].base)
           /\ xfer'[p].stage = IF xfer'[p].todo = <<>> THEN "scan" ELSE "removes"
           /\ xfer'[p].sent = xfer[p].sent /\ xfer'[p].left = xfer[p].left
           /\ xfer'[p].recs = xfer[p].recs /\ xfer'[p].gap = xfer[p].gap
<1> DEFINE c == Chain(all, xfer[p].base)
           st == IF c = <<>> THEN "scan" ELSE "removes"
<1>1. /\ xfer' = [xfer EXCEPT ![p].todo = c, ![p].stage = st] /\ xfer[p].stage = "list"
      /\ UNCHANGED <<content, latest, all, diffs, record, job, gc, version, commits>>
      /\ UNCHANGED <<peer, check>>
  BY DEF ListSerials, XferUnchanged, redis
<1>2. c \in Seq(Nat \X Nat)
  <2>1. xfer[p].base \in Nat /\ all \in Seq(Nat)
    BY Fields DEF Xfers
  <2>2. QED BY <2>1, ChainOf
<1>3. st \in {"scan", "removes"} /\ st = IF c = <<>> THEN "scan" ELSE "removes"
  OBVIOUS
<1> HIDE DEF c, st
<1>4. xfer[p] \in Xfers
  BY Fields
<1>5. /\ xfer' \in [Peers -> Xfers] /\ \A q \in Peers \ {p} : xfer'[q] = xfer[q]
      /\ xfer'[p] = [xfer[p] EXCEPT !.todo = c, !.stage = st]
  BY <1>1, <1>2, <1>3, <1>4 DEF TypeOK, Xfers
<1>6. /\ SameAim(xfer[p], xfer'[p]) /\ xfer'[p].todo = c /\ xfer'[p].stage = st
      /\ xfer'[p].sent = xfer[p].sent /\ xfer'[p].left = xfer[p].left
      /\ xfer'[p].recs = xfer[p].recs /\ xfer'[p].gap = xfer[p].gap
  BY <1>4, <1>5 DEF Xfers, SameAim
<1>7. QED BY <1>1, <1>3, <1>5, <1>6 DEF OnlyXfer, c

DiffsTyped == \A pair, op : DiffList(pair, op) \subseteq Records

LEMMA DiffsType == TypeOK => DiffsTyped
  BY DEF TypeOK, DiffList, DiffsTyped

(* The removals of a step have been read, or taken for none.               *)
LEMMA RemovesOf ==
    ASSUME TypeOK, NEW p \in Peers, NEW R \in SUBSET Records, NEW g \in BOOLEAN,
           xfer' = [xfer EXCEPT ![p].stage = "adds", ![p].recs = R, ![p].gap = g]
    PROVE  /\ xfer' \in [Peers -> Xfers] /\ SameAim(xfer[p], xfer'[p])
           /\ \A q \in Peers \ {p} : xfer'[q] = xfer[q]
           /\ xfer'[p].stage = "adds" /\ xfer'[p].recs = R /\ xfer'[p].gap = g
           /\ xfer'[p].todo = xfer[p].todo /\ xfer'[p].sent = xfer[p].sent
           /\ xfer'[p].left = xfer[p].left
<1>1. xfer[p] \in Xfers
  BY Fields
<1>2. /\ xfer' \in [Peers -> Xfers] /\ \A q \in Peers \ {p} : xfer'[q] = xfer[q]
      /\ xfer'[p] = [xfer[p] EXCEPT !.stage = "adds", !.recs = R, !.gap = g]
  BY <1>1 DEF TypeOK, Xfers
<1>3. QED BY <1>1, <1>2 DEF Xfers, SameAim

(* A step from one serial to the next has been read.                       *)
LEMMA SendOf ==
    ASSUME TypeOK, NEW p \in Peers, NEW A \in SUBSET Records, NEW g \in BOOLEAN,
           SendDiff(p, A, g), xfer[p].todo # <<>>
    PROVE  LET x == xfer[p]  y == xfer'[p]
               step == [from |-> Head(x.todo)[1], to |-> Head(x.todo)[2],
                        remove |-> x.recs, add |-> A]
           IN  /\ xfer' \in [Peers -> Xfers] /\ SameAim(x, y)
               /\ \A q \in Peers \ {p} : xfer'[q] = xfer[q]
               /\ Head(x.todo) \in Nat \X Nat /\ step \in Steps
               /\ y.todo = Tail(x.todo) /\ y.sent = Append(x.sent, step)
               /\ y.stage = IF y.todo = <<>> THEN "sent" ELSE "removes"
               /\ y.gap = (x.gap \/ g) /\ y.recs = {} /\ y.left = x.left
<1> DEFINE pair == Head(xfer[p].todo)
           last == Len(xfer[p].todo) = 1
           st == IF last THEN "sent" ELSE "removes"
           td == Tail(xfer[p].todo)
           step == [from |-> pair[1], to |-> pair[2], remove |-> xfer[p].recs, add |-> A]
           sn == Append(xfer[p].sent, step)
           gp == xfer[p].gap \/ g
<1>0. xfer[p] \in Xfers
  BY Fields
<1>1. /\ pair \in Nat \X Nat /\ td \in Seq(Nat \X Nat) /\ (last <=> td = <<>>)
  <2> DEFINE ts == xfer[p].todo
  <2>1. ts \in Seq(Nat \X Nat) /\ ts # <<>>
    BY <1>0 DEF Xfers
  <2> HIDE DEF ts
  <2>2. /\ Head(ts) \in Nat \X Nat /\ Tail(ts) \in Seq(Nat \X Nat)
        /\ Len(Tail(ts)) = Len(ts) - 1 /\ Len(ts) \in Nat
    BY <2>1, HeadTailProperties
  <2>3. \A u \in Seq(Nat \X Nat) : Len(u) = 0 <=> u = <<>>
    OBVIOUS
  <2>4. Len(Tail(ts)) = 0 <=> Tail(ts) = <<>>
    BY <2>2, <2>3
  <2> DEFINE n == Len(ts)
             k == Len(Tail(ts))
  <2>5. k = n - 1 /\ n \in Nat
    BY <2>2
  <2> HIDE DEF n, k
  <2>6. n = 1 <=> k = 0
    BY <2>5
  <2>7. Len(ts) = 1 <=> Tail(ts) = <<>>
    BY <2>4, <2>6 DEF n, k
  <2>8. QED BY <2>2, <2>7 DEF ts
<1>2. xfer' = [xfer EXCEPT ![p].stage = st, ![p].todo = td, ![p].sent = sn,
                           ![p].recs = {}, ![p].gap = gp]
  BY DEF SendDiff
<1>3. step \in Steps
  <2> HIDE DEF pair
  <2>1. QED BY <1>0, <1>1 DEF Steps, Xfers
<1>4. sn \in Seq(Steps)
  <2> HIDE DEF step
  <2>1. QED BY <1>0, <1>3 DEF Xfers
<1>5. gp \in BOOLEAN /\ st \in {"sent", "removes"} /\ st = IF td = <<>> THEN "sent" ELSE "removes"
  BY <1>0, <1>1 DEF Xfers
<1> HIDE DEF st, td, sn, gp
<1>6. /\ xfer' \in [Peers -> Xfers] /\ \A q \in Peers \ {p} : xfer'[q] = xfer[q]
      /\ xfer'[p] = [xfer[p] EXCEPT !.stage = st, !.todo = td, !.sent = sn, !.recs = {},
                                    !.gap = gp]
  BY <1>0, <1>1, <1>2, <1>4, <1>5 DEF TypeOK, Xfers
<1>7. /\ SameAim(xfer[p], xfer'[p]) /\ xfer'[p].todo = td /\ xfer'[p].sent = sn
      /\ xfer'[p].stage = st /\ xfer'[p].gap = gp /\ xfer'[p].recs = {}
      /\ xfer'[p].left = xfer[p].left
  BY <1>0, <1>6 DEF Xfers, SameAim
<1>8. QED BY <1>1, <1>3, <1>5, <1>6, <1>7 DEF td, sn, gp

LEMMA NameOf ==
    ASSUME TypeOK, NEW p \in Peers, NEW n \in Names, ReadName(p, n)
    PROVE  LET x == xfer[p]  y == xfer'[p]
           IN  /\ OnlyXfer(p) /\ UNCHANGED peer /\ (Finish(p) \/ UNCHANGED check)
               /\ x.stage = "scan" /\ n \in x.left
               /\ xfer' \in [Peers -> Xfers] /\ SameAim(x, y)
               /\ y.recs = x.recs \cup Under(content, n) /\ y.left = x.left \ {n}
               /\ y.stage = IF y.left = {} THEN "sent" ELSE "scan"
               /\ y.todo = x.todo /\ y.sent = x.sent /\ y.gap = x.gap
<1> DEFINE rs == xfer[p].recs \cup Under(content, n)
           lf == xfer[p].left \ {n}
           st == IF xfer[p].left = {n} THEN "sent" ELSE "scan"
<1>0. xfer[p] \in Xfers /\ content \subseteq Records
  BY Fields
<1>1. /\ xfer' = [xfer EXCEPT ![p].recs = rs, ![p].left = lf, ![p].stage = st]
      /\ xfer[p].stage = "scan" /\ n \in xfer[p].left
      /\ UNCHANGED <<content, latest, all, diffs, record, job, gc, version, commits>>
      /\ UNCHANGED peer /\ (Finish(p) \/ UNCHANGED check)
  BY DEF ReadName, XferUnchanged, redis
<1>2. rs \in SUBSET Records /\ lf \in SUBSET Names
  BY <1>0 DEF Under, Xfers
<1>3. st \in {"sent", "scan"} /\ st = IF lf = {} THEN "sent" ELSE "scan"
  BY <1>1
<1> HIDE DEF rs, lf, st
<1>4. /\ xfer' \in [Peers -> Xfers] /\ \A q \in Peers \ {p} : xfer'[q] = xfer[q]
      /\ xfer'[p] = [xfer[p] EXCEPT !.recs = rs, !.left = lf, !.stage = st]
  BY <1>0, <1>1, <1>2, <1>3 DEF TypeOK, Xfers
<1>5. /\ SameAim(xfer[p], xfer'[p]) /\ xfer'[p].recs = rs /\ xfer'[p].left = lf
      /\ xfer'[p].stage = st /\ xfer'[p].todo = xfer[p].todo
      /\ xfer'[p].sent = xfer[p].sent /\ xfer'[p].gap = xfer[p].gap
  BY <1>0, <1>4 DEF Xfers, SameAim
<1>6. QED BY <1>1, <1>3, <1>4, <1>5 DEF OnlyXfer, rs, lf

LEMMA TornOf ==
    ASSUME TypeOK, NEW p \in Peers, xfer' = [xfer EXCEPT ![p].stage = "sent", ![p].gap = TRUE]
    PROVE  /\ xfer' \in [Peers -> Xfers] /\ SameAim(xfer[p], xfer'[p])
           /\ \A q \in Peers \ {p} : xfer'[q] = xfer[q]
           /\ xfer'[p].stage = "sent" /\ xfer'[p].gap = TRUE
           /\ xfer'[p].todo = xfer[p].todo /\ xfer'[p].sent = xfer[p].sent
<1>0. xfer[p] \in Xfers
  BY Fields
<1>1. /\ xfer' \in [Peers -> Xfers] /\ \A q \in Peers \ {p} : xfer'[q] = xfer[q]
      /\ xfer'[p] = [xfer[p] EXCEPT !.stage = "sent", !.gap = TRUE]
  BY <1>0 DEF TypeOK, Xfers
<1>2. QED BY <1>0, <1>1 DEF Xfers, SameAim

LEMMA OffOf ==
    ASSUME TypeOK, NEW p \in Peers, xfer' = [xfer EXCEPT ![p] = NoXfer]
    PROVE  /\ xfer' \in [Peers -> Xfers] /\ xfer'[p] = NoXfer
           /\ \A q \in Peers \ {p} : xfer'[q] = xfer[q]
  BY NoXferType DEF TypeOK

(* A peer takes what it was sent, or does not.                             *)
LEMMA TakesOf ==
    ASSUME TypeOK, NEW p \in Peers, PeerTakes(p)
    PROVE  LET x == xfer[p]  c == peer[p]  d == peer'[p]
           IN  /\ OnlyXfer(p) /\ UNCHANGED check /\ x.stage = "sent"
               /\ xfer' \in [Peers -> Xfers] /\ xfer'[p] = NoXfer
               /\ peer' \in [Peers -> Copies] /\ \A q \in Peers \ {p} : peer'[q] = peer[q]
               /\ \/ /\ x.sent = <<>> /\ d.serial = x.serial
                     /\ d.recs = x.recs /\ d.gap = x.gap
                  \/ /\ x.sent # <<>> /\ Leads(x) /\ d.serial = x.serial
                     /\ d.recs = ApplyAll(c.recs, x.sent) /\ d.gap = (c.gap \/ x.gap)
                  \/ d.serial = c.serial /\ d.recs = c.recs /\ d.gap = c.gap
<1> DEFINE x == xfer[p]
           c == peer[p]
           whole == [serial |-> x.serial, recs |-> x.recs, axfr |-> FALSE, gap |-> x.gap]
           steps == [serial |-> x.serial, recs |-> ApplyAll(c.recs, x.sent),
                     axfr |-> FALSE, gap |-> c.gap \/ x.gap]
           again == [c EXCEPT !.axfr = TRUE]
<1>0. x \in Xfers /\ c \in Copies
  BY Fields
<1>1. /\ xfer' = [xfer EXCEPT ![p] = NoXfer] /\ xfer[p].stage = "sent" /\ UNCHANGED check
      /\ UNCHANGED <<content, latest, all, diffs, record, job, gc, version, commits>>
  BY DEF PeerTakes, XferUnchanged, redis
<1>2. /\ xfer' \in [Peers -> Xfers] /\ xfer'[p] = NoXfer
      /\ \A q \in Peers \ {p} : xfer'[q] = xfer[q]
  BY <1>1, OffOf
<1>3. whole \in Copies /\ steps \in Copies /\ again \in Copies
  <2>1. ApplyAll(c.recs, x.sent) \in SUBSET Records
    BY DEF ApplyAll
  <2>2. /\ x.serial \in Nat /\ x.recs \in SUBSET Records /\ x.gap \in BOOLEAN
        /\ c.serial \in Nat /\ c.recs \in SUBSET Records /\ c.gap \in BOOLEAN
    BY <1>0 DEF Xfers, Copies
  <2> HIDE DEF x
  <2>3. whole \in Copies
    BY <2>2 DEF Copies
  <2>4. again \in Copies
    BY <1>0 DEF Copies
  <2>5. steps \in Copies
    <3> DEFINE g == c.gap \/ x.gap
               R == ApplyAll(c.recs, x.sent)
    <3>1. g \in BOOLEAN /\ R \in SUBSET Records
      BY <2>1, <2>2
    <3> HIDE DEF g, R
    <3>2. [serial |-> x.serial, recs |-> R, axfr |-> FALSE, gap |-> g] \in Copies
      BY <2>2, <3>1 DEF Copies
    <3>3. QED BY <3>2 DEF g, R
  <2>6. QED BY <2>3, <2>4, <2>5
<1>4. /\ again.serial = c.serial /\ again.recs = c.recs /\ again.gap = c.gap
  BY <1>0 DEF Copies
<1>5. ASSUME NEW d \in Copies, peer' = [peer EXCEPT ![p] = d]
      PROVE  /\ peer' \in [Peers -> Copies] /\ peer'[p] = d
             /\ \A q \in Peers \ {p} : peer'[q] = peer[q]
  BY <1>5 DEF TypeOK
<1>6. \/ x.sent = <<>> /\ peer' = [peer EXCEPT ![p] = whole]
      \/ x.sent # <<>> /\ Leads(x) /\ peer' = [peer EXCEPT ![p] = steps]
      \/ peer' = [peer EXCEPT ![p] = again]
  BY DEF PeerTakes
<1>7. CASE x.sent = <<>> /\ peer' = [peer EXCEPT ![p] = whole]
  <2>1. /\ peer' \in [Peers -> Copies] /\ peer'[p] = whole
        /\ \A q \in Peers \ {p} : peer'[q] = peer[q]
    BY <1>3, <1>5, <1>7
  <2>2. QED BY <1>1, <1>2, <1>7, <2>1 DEF OnlyXfer
<1>8. CASE x.sent # <<>> /\ Leads(x) /\ peer' = [peer EXCEPT ![p] = steps]
  <2>1. /\ peer' \in [Peers -> Copies] /\ peer'[p] = steps
        /\ \A q \in Peers \ {p} : peer'[q] = peer[q]
    BY <1>3, <1>5, <1>8
  <2>2. QED BY <1>1, <1>2, <1>8, <2>1 DEF OnlyXfer
<1>9. CASE peer' = [peer EXCEPT ![p] = again]
  <2>1. /\ peer' \in [Peers -> Copies] /\ peer'[p] = again
        /\ \A q \in Peers \ {p} : peer'[q] = peer[q]
    BY <1>3, <1>5, <1>9
  <2>2. QED BY <1>1, <1>2, <1>4, <2>1 DEF OnlyXfer
<1>10. QED BY <1>6, <1>7, <1>8, <1>9

(* The ways a transfer goes on; what it says is exact unless its gap says  *)
(* that a read failed or found nothing.                                    *)
Asked(p) ==
    LET y == xfer'[p] IN
    /\ xfer[p].stage = "none"
    /\ (y.serial = latest /\ latest # 0) \/ (y.serial \in Defaults /\ y.gap)
    /\ y.stage \in {"list", "scan"} /\ y.base = peer[p].serial
    /\ y.base = 0 \/ y.base < latest
    /\ y.todo = <<>> /\ y.sent = <<>> /\ y.left = Names /\ y.recs = {}

Listed(p) ==
    LET x == xfer[p]  y == xfer'[p] IN
    /\ x.stage = "list" /\ y.todo = Chain(all, x.base)
    /\ y.stage = IF y.todo = <<>> THEN "scan" ELSE "removes"
    /\ y.sent = x.sent /\ y.left = x.left /\ y.recs = x.recs /\ y.gap = x.gap

Removed(p) ==
    LET x == xfer[p]  y == xfer'[p] IN
    /\ x.stage = "removes" /\ y.stage = "adds"
    /\ y.todo = x.todo /\ y.sent = x.sent
    /\ ~y.gap => ~x.gap /\ ~Gone(Head(x.todo)) /\ y.recs = DiffList(Head(x.todo), "remove")

StepSent(p) ==
    LET x == xfer[p]  y == xfer'[p]  pair == Head(x.todo) IN
    /\ x.stage = "adds" /\ y.todo = Tail(x.todo)
    /\ y.stage = IF y.todo = <<>> THEN "sent" ELSE "removes"
    /\ \E A \in SUBSET Records :
          LET s == [from |-> pair[1], to |-> pair[2], remove |-> x.recs, add |-> A]
          IN  /\ s \in Steps /\ y.sent = Append(x.sent, s)
              /\ ~y.gap => ~x.gap /\ ~Gone(pair) /\ A = DiffList(pair, "add")

Named(p) ==
    LET x == xfer[p]  y == xfer'[p] IN
    /\ x.stage = "scan"
    /\ \E n \in x.left : y.recs = x.recs \cup Under(content, n) /\ y.left = x.left \ {n}
    /\ y.stage = IF y.left = {} THEN "sent" ELSE "scan"
    /\ y.todo = x.todo /\ y.sent = x.sent /\ y.gap = x.gap

Torn(p) ==
    LET x == xfer[p]  y == xfer'[p] IN
    /\ x.stage = "scan" /\ y.stage = "sent" /\ y.gap
    /\ y.todo = x.todo /\ y.sent = x.sent

GoesOn(p) == /\ SameAim(xfer[p], xfer'[p]) /\ UNCHANGED peer
             /\ Listed(p) \/ Removed(p) \/ StepSent(p) \/ Named(p) \/ Torn(p)

LEMMA XferCases ==
    ASSUME TypeOK, Increasing(all), XferInv, NEW p \in Peers,
           Ask(p) \/ XferStep(p) \/ ReadFails(p)
    PROVE  /\ OnlyXfer(p) /\ xfer' \in [Peers -> Xfers]
           /\ UNCHANGED check \/ (Finish(p) /\ xfer[p].stage # "none")
           /\ \/ Asked(p) /\ UNCHANGED peer
              \/ GoesOn(p)
              \/ xfer'[p] = NoXfer /\ UNCHANGED peer
              \/ PeerTakes(p)
<1>1. CASE Ask(p)
  BY <1>1, AskOf DEF Asked
<1>2. CASE ListSerials(p)
  BY <1>2, ListOf DEF GoesOn, Listed
<1>3. ASSUME xfer[p].stage = "removes", NEW R \in SUBSET Records, NEW g \in BOOLEAN,
             xfer' = [xfer EXCEPT ![p].stage = "adds", ![p].recs = R, ![p].gap = g],
             ~g => ~xfer[p].gap /\ ~Gone(Head(xfer[p].todo))
                     /\ R = DiffList(Head(xfer[p].todo), "remove"),
             UNCHANGED <<content, latest, all, diffs, record, job, gc, version, commits>>,
             UNCHANGED <<check, peer>>
      PROVE  OnlyXfer(p) /\ xfer' \in [Peers -> Xfers] /\ UNCHANGED check /\ GoesOn(p)
  <2>1. /\ xfer' \in [Peers -> Xfers] /\ SameAim(xfer[p], xfer'[p])
        /\ \A q \in Peers \ {p} : xfer'[q] = xfer[q]
        /\ xfer'[p].stage = "adds" /\ xfer'[p].recs = R /\ xfer'[p].gap = g
        /\ xfer'[p].todo = xfer[p].todo /\ xfer'[p].sent = xfer[p].sent
    <3>1. xfer' = [xfer EXCEPT ![p].stage = "adds", ![p].recs = R, ![p].gap = g]
      BY <1>3
    <3>2. R \in SUBSET Records /\ g \in BOOLEAN
      BY <1>3
    <3>3. QED BY <3>1, <3>2, RemovesOf
  <2>2. Removed(p)
    BY <1>3, <2>1 DEF Removed
  <2>3. QED BY <1>3, <2>1, <2>2 DEF OnlyXfer, GoesOn
<1>4. CASE ReadRemoves(p)
  <2> DEFINE R == DiffList(Head(xfer[p].todo), "remove")
             g == xfer[p].gap \/ Gone(Head(xfer[p].todo))
  <2>1. /\ xfer[p].stage = "removes"
        /\ xfer' = [xfer EXCEPT ![p].stage = "adds", ![p].recs = R, ![p].gap = g]
        /\ UNCHANGED <<content, latest, all, diffs, record, job, gc, version, commits>>
        /\ UNCHANGED <<check, peer>>
    BY <1>4 DEF ReadRemoves, XferUnchanged, redis
  <2>2. R \in SUBSET Records /\ g \in BOOLEAN
    <3>1. xfer[p].gap \in BOOLEAN
      BY Fields DEF Xfers
    <3>2. QED BY <3>1, DiffsType DEF DiffsTyped, Gone
  <2>3. QED BY <1>3, <2>1, <2>2
<1>5. ASSUME xfer[p].stage = "adds", NEW A \in SUBSET Records, NEW g \in BOOLEAN,
             SendDiff(p, A, g),
             ~g => ~Gone(Head(xfer[p].todo)) /\ A = DiffList(Head(xfer[p].todo), "add"),
             UNCHANGED <<content, latest, all, diffs, record, job, gc, version, commits>>,
             UNCHANGED peer
      PROVE  /\ OnlyXfer(p) /\ xfer' \in [Peers -> Xfers] /\ GoesOn(p)
             /\ UNCHANGED check \/ Finish(p)
  <2>1. xfer[p].todo # <<>>
    BY <1>5 DEF XferInv
  <2> DEFINE x == xfer[p]
             y == xfer'[p]
             step == [from |-> Head(x.todo)[1], to |-> Head(x.todo)[2],
                      remove |-> x.recs, add |-> A]
  <2>2. /\ xfer' \in [Peers -> Xfers] /\ SameAim(x, y)
        /\ \A q \in Peers \ {p} : xfer'[q] = xfer[q]
        /\ step \in Steps /\ y.todo = Tail(x.todo) /\ y.sent = Append(x.sent, step)
        /\ y.stage = IF y.todo = <<>> THEN "sent" ELSE "removes"
        /\ y.gap = (x.gap \/ g)
    BY <1>5, <2>1, SendOf
  <2>3. ~y.gap => ~x.gap /\ ~Gone(Head(x.todo)) /\ A = DiffList(Head(x.todo), "add")
    BY <1>5, <2>2
  <2>4. StepSent(p)
    BY <1>5, <2>2, <2>3 DEF StepSent
  <2>5. UNCHANGED check \/ Finish(p)
    BY <1>5 DEF SendDiff
  <2>6. QED BY <1>5, <2>2, <2>4, <2>5 DEF OnlyXfer, GoesOn
<1>6. CASE ReadAdds(p)
  <2> DEFINE A == DiffList(Head(xfer[p].todo), "add")
             g == Gone(Head(xfer[p].todo))
  <2>1. /\ xfer[p].stage = "adds" /\ SendDiff(p, A, g) /\ UNCHANGED peer
        /\ UNCHANGED <<content, latest, all, diffs, record, job, gc, version, commits>>
    BY <1>6 DEF ReadAdds, XferUnchanged, redis
  <2>2. A \in SUBSET Records /\ g \in BOOLEAN
    BY DiffsType DEF DiffsTyped, Gone
  <2> HIDE DEF A, g
  <2>3. ~g => ~Gone(Head(xfer[p].todo)) /\ A = DiffList(Head(xfer[p].todo), "add")
    BY DEF A, g
  <2>4. /\ OnlyXfer(p) /\ xfer' \in [Peers -> Xfers] /\ GoesOn(p)
        /\ UNCHANGED check \/ Finish(p)
    BY <1>5, <2>1, <2>2, <2>3
  <2>5. QED BY <2>1, <2>4
<1>7. ASSUME NEW n \in Names, ReadName(p, n)
      PROVE  /\ OnlyXfer(p) /\ xfer' \in [Peers -> Xfers] /\ GoesOn(p)
             /\ UNCHANGED check \/ (Finish(p) /\ xfer[p].stage # "none")
  <2>1. Named(p)
    BY <1>7, NameOf DEF Named
  <2>2. QED BY <1>7, <2>1, NameOf DEF GoesOn
<1>8. CASE PeerTakes(p)
  BY <1>8, TakesOf
<1>9. CASE ReadFails(p)
  <2>0. /\ UNCHANGED peer
        /\ UNCHANGED <<content, latest, all, diffs, record, job, gc, version, commits>>
    BY <1>9 DEF ReadFails, XferUnchanged, redis
  <2>1. CASE xfer[p].stage = "list" /\ xfer' = [xfer EXCEPT ![p] = NoXfer] /\ UNCHANGED check
    BY <2>0, <2>1, OffOf DEF OnlyXfer
  <2>2. CASE /\ xfer[p].stage = "removes"
             /\ xfer' = [xfer EXCEPT ![p].stage = "adds", ![p].recs = {}, ![p].gap = TRUE]
             /\ UNCHANGED check
    BY <1>3, <2>0, <2>2
  <2>3. CASE xfer[p].stage = "adds" /\ SendDiff(p, {}, TRUE)
    <3>1. /\ OnlyXfer(p) /\ xfer' \in [Peers -> Xfers] /\ GoesOn(p)
          /\ UNCHANGED check \/ Finish(p)
      BY <1>5, <2>0, <2>3
    <3>2. QED BY <2>3, <3>1
  <2>4. CASE /\ xfer[p].stage = "scan" /\ Finish(p)
             /\ xfer' = [xfer EXCEPT ![p].stage = "sent", ![p].gap = TRUE]
    BY <2>0, <2>4, TornOf DEF OnlyXfer, GoesOn, Torn
  <2>5. QED BY <1>9, <2>1, <2>2, <2>3, <2>4 DEF ReadFails
<1>10. QED BY <1>1, <1>2, <1>4, <1>6, <1>7, <1>8, <1>9 DEF XferStep

-----------------------------------------------------------------------------
(* The types.                                                              *)

LEMMA StartTypes ==
    ASSUME TypeOK, NEW C \in Changes, StartJob(C)
    PROVE  TypeOK'
<1> DEFINE n == SerialOf(commits + 1)
           v == (content \ C) \cup (C \ content)
           jb == [stage |-> "remove", serial |-> n, rms |-> C \cap content,
                  adds |-> C \ content, names |-> {r[1] : r \in C}]
<1>1. /\ commits < MaxCommits /\ commits' = commits + 1 /\ job' = jb
      /\ version' = [version EXCEPT ![n] = v]
      /\ UNCHANGED <<content, latest, all, diffs, record, xfer, check, gc, peer, deletes,
                     restarts, unanswered, errors>>
  BY DEF StartJob, JobUnchanged, redis
<1>2. C \subseteq Records /\ content \subseteq Records
  BY PeersAssumption, Fields DEF Records
<1>3. commits \in Nat /\ commits + 1 \in 0..MaxCommits /\ MaxCommits \in Nat
  BY <1>1, PeersAssumption DEF TypeOK, bounds
<1>4. n \in Nat /\ n \in Serials
  BY <1>3 DEF SerialOf, Serials
<1>5. {r[1] : r \in C} \subseteq Names
  BY <1>2 DEF Records
<1> HIDE DEF n
<1>6. jb \in Jobs
  BY <1>2, <1>4, <1>5 DEF Jobs
<1>7. v \in SUBSET Records
  BY <1>2
<1> HIDE DEF jb, v
<1>8. version' \in [Serials \cup {0} -> SUBSET Records]
  BY <1>1, <1>4, <1>7 DEF TypeOK
<1>9. bounds' \in (0..MaxCommits) \X (0..MaxDeletes) \X (0..MaxRestarts)
                    \X (0..MaxUnanswered) \X (0..MaxErrors)
  BY <1>1, <1>3 DEF TypeOK, bounds
<1>10. QED BY <1>1, <1>6, <1>8, <1>9 DEF TypeOK

(* What a step of the commit leaves alone.                                 *)
LEMMA JobFrame ==
    ASSUME JobStep
    PROVE  UNCHANGED <<record, xfer, check, gc, peer, version, bounds>>
  BY DEF JobStep, PushRemoves, PushAdds, CommitName, PushAll, SetLatest, JobUnchanged, bounds

LEMMA EntriesType ==
    ASSUME TypeOK, NEW op \in {"remove", "add"}, NEW R \in SUBSET Records
    PROVE  Entries(op, R) \subseteq [from : Nat, to : Nat, op : {"remove", "add"}, rec : Records]
<1>1. latest \in Nat /\ job.serial \in Nat
  BY Fields
<1>2. QED BY <1>1 DEF Entries

LEMMA JobStages ==
    ASSUME TypeOK, NEW st \in {"idle", "remove", "add", "names", "latest"},
           job' = [job EXCEPT !.stage = st]
    PROVE  /\ job' \in Jobs /\ job'.stage = st /\ job'.serial = job.serial
           /\ job'.rms = job.rms /\ job'.adds = job.adds /\ job'.names = job.names
<1>1. job \in Jobs
  BY Fields
<1>2. QED BY <1>1 DEF Jobs

LEMMA JobTypes ==
    ASSUME TypeOK, JobStep
    PROVE  TypeOK'
<1>0. job \in Jobs /\ latest \in Nat /\ all \in Seq(Nat) /\ content \subseteq Records
  BY Fields
<1>1. ASSUME job' \in Jobs, latest' \in Nat, all' \in Seq(Nat), content' \subseteq Records,
             diffs' \subseteq [from : Nat, to : Nat, op : {"remove", "add"}, rec : Records]
      PROVE  TypeOK'
  <2>1. UNCHANGED <<record, xfer, check, gc, peer, version, bounds>>
    BY JobFrame
  <2>2. UNCHANGED Serials
    BY DEF Serials, SerialOf
  <2>3. QED BY <1>1, <2>1, <2>2 DEF TypeOK
<1>2. diffs \subseteq [from : Nat, to : Nat, op : {"remove", "add"}, rec : Records]
  BY DEF TypeOK
<1>3. CASE PushRemoves
  <2>1. job.rms \in SUBSET Records
    BY <1>0 DEF Jobs
  <2>2. diffs' \subseteq [from : Nat, to : Nat, op : {"remove", "add"}, rec : Records]
    BY <1>2, <1>3, <2>1, EntriesType DEF PushRemoves
  <2>3. job' \in Jobs
    BY <1>3, JobStages DEF PushRemoves
  <2>4. QED BY <1>0, <1>1, <1>3, <2>2, <2>3 DEF PushRemoves
<1>4. CASE PushAdds
  <2>1. job.adds \in SUBSET Records
    BY <1>0 DEF Jobs
  <2>2. diffs' \subseteq [from : Nat, to : Nat, op : {"remove", "add"}, rec : Records]
    BY <1>2, <1>4, <2>1, EntriesType DEF PushAdds
  <2>3. job' \in Jobs
    BY <1>4, JobStages DEF PushAdds
  <2>4. QED BY <1>0, <1>1, <1>4, <2>2, <2>3 DEF PushAdds
<1>5. ASSUME NEW n \in Names, CommitName(n) PROVE TypeOK'
  <2>1. job' \in Jobs
    BY <1>0, <1>5 DEF CommitName, Jobs
  <2>2. content' \subseteq Records
    BY <1>0, <1>5 DEF CommitName, Under, Jobs
  <2>3. QED BY <1>0, <1>1, <1>2, <1>5, <2>1, <2>2 DEF CommitName
<1>6. CASE PushAll
  <2>1. job' \in Jobs
    BY <1>6, JobStages DEF PushAll
  <2>2. all' \in Seq(Nat)
    BY <1>0, <1>6, Fields DEF PushAll
  <2>3. QED BY <1>0, <1>1, <1>2, <1>6, <2>1, <2>2 DEF PushAll
<1>7. CASE SetLatest
  <2>1. job' \in Jobs
    BY <1>7 DEF SetLatest, NoJob, Jobs
  <2>2. latest' \in Nat
    BY <1>7, Fields DEF SetLatest
  <2>3. QED BY <1>0, <1>1, <1>2, <1>7, <2>1, <2>2 DEF SetLatest
<1>8. QED BY <1>3, <1>4, <1>5, <1>6, <1>7 DEF JobStep

(* Finish arms no check that knows no serial: a transfer has one.          *)
LEMMA FinishType ==
    ASSUME TypeOK, XferInv, NEW p \in Peers,
           UNCHANGED check \/ (Finish(p) /\ xfer[p].stage # "none")
    PROVE  check' \in [Peers -> Checks]
<1>1. CASE UNCHANGED check
  BY <1>1 DEF TypeOK
<1>2. CASE Finish(p) /\ xfer[p].stage # "none"
  <2> DEFINE c == [NoCheck EXCEPT !.stage = "armed", !.serial = xfer[p].serial]
  <2>1. xfer[p].serial \in Nat \ {0}
    BY <1>2, Fields DEF XferInv, Xfers
  <2>2. c \in Checks
    BY <2>1 DEF NoCheck, Checks
  <2>3. check' = [check EXCEPT ![p] = c] \/ UNCHANGED check
    BY <1>2 DEF Finish
  <2> HIDE DEF c
  <2>4. QED BY <2>2, <2>3 DEF TypeOK
<1>3. QED BY <1>1, <1>2

LEMMA ErrorsOf ==
    ASSUME NEW p \in Peers, Ask(p) \/ XferStep(p) \/ ReadFails(p)
    PROVE  /\ UNCHANGED <<commits, deletes, restarts, unanswered, version>>
           /\ errors' = errors \/ (errors < MaxErrors /\ errors' = errors + 1)
<1>1. CASE Ask(p)
  BY <1>1 DEF Ask, XferUnchanged
<1>2. CASE XferStep(p)
  BY <1>2 DEF XferStep, ListSerials, ReadRemoves, ReadAdds, ReadName, PeerTakes, XferUnchanged
<1>3. CASE ReadFails(p)
  BY <1>3 DEF ReadFails, XferUnchanged
<1>4. QED BY <1>1, <1>2, <1>3

LEMMA XferTypes ==
    ASSUME TypeOK, XferInv, Increasing(all), NEW p \in Peers,
           Ask(p) \/ XferStep(p) \/ ReadFails(p)
    PROVE  TypeOK' /\ XferInv'
<1>0. /\ OnlyXfer(p) /\ xfer' \in [Peers -> Xfers]
      /\ UNCHANGED check \/ (Finish(p) /\ xfer[p].stage # "none")
      /\ \/ Asked(p) /\ UNCHANGED peer
         \/ GoesOn(p)
         \/ xfer'[p] = NoXfer /\ UNCHANGED peer
         \/ PeerTakes(p)
  BY XferCases
<1>1. check' \in [Peers -> Checks]
  BY <1>0, FinishType
<1>2. peer' \in [Peers -> Copies] /\ \A q \in Peers \ {p} : peer'[q] = peer[q]
  <2>1. CASE UNCHANGED peer
    BY <2>1 DEF TypeOK
  <2>2. CASE PeerTakes(p)
    BY <2>2, TakesOf
  <2>3. QED BY <1>0, <2>1, <2>2 DEF GoesOn
<1>3. bounds' \in (0..MaxCommits) \X (0..MaxDeletes) \X (0..MaxRestarts)
                    \X (0..MaxUnanswered) \X (0..MaxErrors)
  <2>1. /\ UNCHANGED <<commits, deletes, restarts, unanswered>>
        /\ errors' = errors \/ (errors < MaxErrors /\ errors' = errors + 1)
    BY ErrorsOf
  <2>2. errors' \in 0..MaxErrors
    BY <2>1, PeersAssumption DEF TypeOK, bounds
  <2>3. QED BY <2>1, <2>2 DEF TypeOK, bounds
<1>4. TypeOK'
  <2>1. UNCHANGED version /\ UNCHANGED Serials
    BY ErrorsOf DEF Serials, SerialOf
  <2>2. QED BY <1>0, <1>1, <1>2, <1>3, <2>1 DEF TypeOK, OnlyXfer
<1>5. /\ xfer'[p].stage # "none" => xfer'[p].serial # 0 /\ xfer'[p].base = peer'[p].serial
      /\ xfer'[p].stage \in {"removes", "adds"} => xfer'[p].todo # <<>>
      /\ xfer'[p].stage = "none" => xfer'[p].todo = <<>>
  <2>1. CASE Asked(p) /\ UNCHANGED peer
    BY <2>1, PeersAssumption DEF Asked
  <2>2. CASE GoesOn(p)
    <3>1. /\ xfer[p].stage # "none" => xfer[p].serial # 0 /\ xfer[p].base = peer[p].serial
          /\ xfer[p].stage \in {"removes", "adds"} => xfer[p].todo # <<>>
      BY DEF XferInv
    <3>2. QED BY <2>2, <3>1 DEF GoesOn, SameAim, Listed, Removed, StepSent, Named, Torn
  <2>3. CASE xfer'[p] = NoXfer
    BY <2>3 DEF NoXfer
  <2>4. QED BY <1>0, <2>1, <2>2, <2>3, TakesOf
<1>6. XferInv'
  BY <1>0, <1>2, <1>5 DEF XferInv, OnlyXfer
<1>7. QED BY <1>4, <1>6

LEMMA CheckTypes ==
    ASSUME TypeOK, NEW p \in Peers, CheckStep(p) \/ DeletePeer(p)
    PROVE  /\ TypeOK'
           /\ UNCHANGED <<content, latest, all, diffs, job, xfer, gc, peer, version, commits>>
<1>0. UNCHANGED <<content, latest, all, diffs, job, xfer, gc, peer, version, commits,
                  restarts, errors>>
  BY DEF CheckStep, PeerAnswers, NoAnswer, SaveSerial, CheckDone, DeletePeer,
         CheckUnchanged, redis
<1>1. check[p] \in Checks /\ peer[p].serial \in Nat
  BY Fields
<1>2. ASSUME NEW c \in Checks, check' = [check EXCEPT ![p] = c] \/ UNCHANGED check,
             record' \in [Peers -> Nat], deletes' \in 0..MaxDeletes,
             unanswered' \in 0..MaxUnanswered
      PROVE  TypeOK'
  <2>1. check' \in [Peers -> Checks]
    BY <1>2 DEF TypeOK
  <2>2. bounds' \in (0..MaxCommits) \X (0..MaxDeletes) \X (0..MaxRestarts)
                    \X (0..MaxUnanswered) \X (0..MaxErrors)
    BY <1>0, <1>2 DEF TypeOK, bounds
  <2>3. UNCHANGED Serials
    BY DEF Serials, SerialOf
  <2>4. QED BY <1>0, <1>2, <2>1, <2>2, <2>3 DEF TypeOK
<1>3. /\ record \in [Peers -> Nat] /\ deletes \in 0..MaxDeletes
      /\ unanswered \in 0..MaxUnanswered /\ MaxDeletes \in Nat /\ MaxUnanswered \in Nat
  BY PeersAssumption DEF TypeOK, bounds
<1>4. NoCheck \in Checks
  BY DEF Checks
<1>5. check[p].stage # "none" => check[p] \in [stage : {"armed", "answered", "saved"},
                                               serial : Nat \ {0}, answer : Nat]
  BY <1>1 DEF Checks, NoCheck
<1>6. CASE PeerAnswers(p)
  <2> DEFINE c == [check[p] EXCEPT !.stage = "answered", !.answer = peer[p].serial]
  <2>1. check' = [check EXCEPT ![p] = c] /\ UNCHANGED <<record, deletes, unanswered>>
    BY <1>1, <1>5, <1>6 DEF PeerAnswers, TypeOK, Checks
  <2>2. c \in Checks
    BY <1>1, <1>5, <1>6 DEF PeerAnswers, Checks
  <2> HIDE DEF c
  <2>3. QED BY <1>0, <1>2, <1>3, <2>1, <2>2
<1>7. CASE NoAnswer(p)
  <2>1. check' = [check EXCEPT ![p] = NoCheck] /\ UNCHANGED <<record, deletes>>
    BY <1>7 DEF NoAnswer
  <2>2. unanswered' \in 0..MaxUnanswered
    BY <1>3, <1>7 DEF NoAnswer
  <2>3. QED BY <1>0, <1>2, <1>3, <1>4, <2>1, <2>2
<1>8. CASE SaveSerial(p)
  <2> DEFINE c == [check[p] EXCEPT !.stage = "saved"]
  <2>1. /\ check' = [check EXCEPT ![p] = c] /\ UNCHANGED <<deletes, unanswered>>
        /\ record' = [record EXCEPT ![p] = check[p].answer] /\ check[p].stage = "answered"
    BY <1>8 DEF SaveSerial
  <2>2. c \in Checks /\ check[p].answer \in Nat
    BY <1>5, <2>1 DEF Checks
  <2>3. record' \in [Peers -> Nat]
    BY <1>3, <2>1, <2>2
  <2> HIDE DEF c
  <2>4. QED BY <1>0, <1>2, <1>3, <2>1, <2>2, <2>3
<1>9. CASE CheckDone(p)
  <2> DEFINE again == [NoCheck EXCEPT !.stage = "armed", !.serial = check[p].serial]
             c == IF check[p].answer < check[p].serial THEN again ELSE NoCheck
  <2>1. /\ check' = [check EXCEPT ![p] = c] /\ UNCHANGED <<record, deletes, unanswered>>
        /\ check[p].stage = "saved"
    BY <1>9 DEF CheckDone
  <2>2. again \in Checks
    BY <1>5, <2>1 DEF Checks, NoCheck
  <2>3. c \in Checks
    BY <1>4, <2>2
  <2> HIDE DEF c
  <2>4. QED BY <1>0, <1>2, <1>3, <2>1, <2>3
<1>10. CASE DeletePeer(p)
  <2>1. /\ UNCHANGED <<check, unanswered>> /\ record' = [record EXCEPT ![p] = 0]
        /\ deletes < MaxDeletes /\ deletes' = deletes + 1
    BY <1>10 DEF DeletePeer
  <2>2. record' \in [Peers -> Nat] /\ deletes' \in 0..MaxDeletes
    BY <1>3, <2>1
  <2>3. QED BY <1>0, <1>1, <1>2, <1>3, <2>1, <2>2
<1>11. QED BY <1>0, <1>6, <1>7, <1>8, <1>9, <1>10 DEF CheckStep

LEMMA GCFields ==
    ASSUME TypeOK
    PROVE  /\ gc.latest \in Nat /\ gc.drop \subseteq Nat /\ gc.rem \subseteq Nat
           /\ \A p \in Peers : gc.seen[p] \in Nat
  BY DEF TypeOK, GCs

LEMMA NoGCType == NoGC \in GCs /\ NoGC.stage = "idle" /\ NoGC.drop = {} /\ NoGC.rem = {}
                    /\ NoGC.latest = 0 /\ \A p \in Peers : NoGC.seen[p] = 0
  BY DEF NoGC, GCs

LEMMA SerialsType == Serials \subseteq Nat
<1>1. Defaults \subseteq Nat
  BY PeersAssumption
<1>2. \A n \in 1..MaxCommits : SerialOf(n) \in Nat
  BY PeersAssumption DEF SerialOf
<1>3. QED BY <1>1, <1>2 DEF Serials

(* What each step of the collection does to it.                            *)
LEMMA GCCases ==
    ASSUME TypeOK, GCStep
    PROVE  /\ UNCHANGED <<content, latest, record, job, xfer, check, peer, version, bounds>>
           /\ gc' \in GCs
           /\ \/ /\ gc.stage = "idle" /\ UNCHANGED <<all, diffs>>
                 /\ gc'.stage = "zones" /\ gc'.latest = latest /\ gc'.seen = gc.seen
                 /\ gc'.drop = gc.drop /\ gc'.rem = gc.rem
              \/ /\ gc.stage = "zones" /\ UNCHANGED <<all, diffs>>
                 /\ gc'.stage = "peers" /\ gc'.latest = gc.latest /\ gc'.seen = record
                 /\ gc'.drop = gc.drop /\ gc'.rem = gc.rem
              \/ /\ gc.stage = "peers" /\ UNCHANGED <<all, diffs>>
                 /\ gc'.stage = "drop" /\ gc'.latest = gc.latest /\ gc'.seen = gc.seen
                 /\ gc'.drop = Doomed /\ gc'.rem = gc.rem
              \/ gc' = NoGC /\ UNCHANGED <<all, diffs>>
              \/ \E s \in gc.drop :
                   /\ gc.stage = "drop" /\ UNCHANGED all
                   /\ diffs' = {e \in diffs : s \notin {e.from, e.to}}
                   /\ gc'.stage = gc.stage /\ gc'.latest = gc.latest /\ gc'.seen = gc.seen
                   /\ gc'.drop = gc.drop \ {s} /\ gc'.rem = gc.rem \cup {s}
              \/ \E s \in gc.rem :
                   /\ gc.stage = "drop" /\ UNCHANGED diffs /\ all' = Without(all, s)
                   /\ \/ gc' = NoGC
                      \/ /\ gc'.stage = gc.stage /\ gc'.latest = gc.latest
                         /\ gc'.seen = gc.seen /\ gc'.drop = gc.drop
                         /\ gc'.rem = gc.rem \ {s}
<1>0. /\ gc \in GCs /\ latest \in Nat /\ record \in [Peers -> Nat] /\ all \in Seq(Nat)
      /\ Serials \subseteq Nat
  BY SerialsType DEF TypeOK
<1>1. UNCHANGED <<content, latest, record, job, xfer, check, peer, version, bounds>>
  BY DEF GCStep, ReadZones, ReadPeers, Collect, DropKeys, RemSerial, GCUnchanged
<1>2. CASE ReadZones
  <2>1. /\ gc' = [gc EXCEPT !.stage = "zones", !.latest = latest] /\ gc.stage = "idle"
        /\ UNCHANGED <<all, diffs>>
    BY <1>2 DEF ReadZones
  <2>2. /\ gc' \in GCs /\ gc'.stage = "zones" /\ gc'.latest = latest /\ gc'.seen = gc.seen
        /\ gc'.drop = gc.drop /\ gc'.rem = gc.rem
    BY <1>0, <2>1 DEF GCs
  <2>3. QED BY <1>1, <2>1, <2>2
<1>3. CASE ReadPeers
  <2>1. /\ gc' = [gc EXCEPT !.stage = "peers", !.seen = record] /\ gc.stage = "zones"
        /\ UNCHANGED <<all, diffs>>
    BY <1>3 DEF ReadPeers
  <2>2. /\ gc' \in GCs /\ gc'.stage = "peers" /\ gc'.latest = gc.latest /\ gc'.seen = record
        /\ gc'.drop = gc.drop /\ gc'.rem = gc.rem
    BY <1>0, <2>1 DEF GCs
  <2>3. QED BY <1>1, <2>1, <2>2
<1>4. CASE Collect
  <2> DEFINE d == Doomed
  <2>1. /\ gc.stage = "peers" /\ UNCHANGED <<all, diffs>>
        /\ gc' = NoGC \/ gc' = [gc EXCEPT !.stage = "drop", !.drop = d]
    BY <1>4 DEF Collect
  <2>2. d \subseteq Nat
    <3>1. \A i \in 1..Len(all) : all[i] \in Nat
      BY <1>0
    <3>2. QED BY <3>1 DEF Doomed, Old
  <2> HIDE DEF d
  <2>3. CASE gc' = NoGC
    BY <1>1, <2>1, <2>3, NoGCType
  <2>4. CASE gc' = [gc EXCEPT !.stage = "drop", !.drop = d]
    <3>1. /\ gc' \in GCs /\ gc'.stage = "drop" /\ gc'.latest = gc.latest
          /\ gc'.seen = gc.seen /\ gc'.drop = d /\ gc'.rem = gc.rem
      BY <1>0, <2>2, <2>4 DEF GCs
    <3>2. QED BY <1>1, <2>1, <3>1 DEF d
  <2>5. QED BY <2>1, <2>3, <2>4
<1>5. ASSUME NEW s \in Serials, DropKeys(s)
      PROVE  /\ gc' \in GCs
             /\ s \in gc.drop /\ gc.stage = "drop" /\ UNCHANGED all
             /\ diffs' = {e \in diffs : s \notin {e.from, e.to}}
             /\ gc'.stage = gc.stage /\ gc'.latest = gc.latest /\ gc'.seen = gc.seen
             /\ gc'.drop = gc.drop \ {s} /\ gc'.rem = gc.rem \cup {s}
  <2> DEFINE d == gc.drop \ {s}
             r == gc.rem \cup {s}
  <2>1. /\ gc' = [gc EXCEPT !.drop = d, !.rem = r] /\ s \in gc.drop /\ gc.stage = "drop"
        /\ UNCHANGED all /\ diffs' = {e \in diffs : s \notin {e.from, e.to}}
    BY <1>5 DEF DropKeys
  <2>2. d \subseteq Nat /\ r \subseteq Nat
    BY <1>0 DEF GCs
  <2> HIDE DEF d, r
  <2>3. /\ gc' \in GCs /\ gc'.stage = gc.stage /\ gc'.latest = gc.latest
        /\ gc'.seen = gc.seen /\ gc'.drop = d /\ gc'.rem = r
    BY <1>0, <2>1, <2>2 DEF GCs
  <2>4. QED BY <2>1, <2>3 DEF d, r
<1>6. ASSUME NEW s \in Serials, RemSerial(s)
      PROVE  /\ gc' \in GCs
             /\ s \in gc.rem /\ gc.stage = "drop" /\ UNCHANGED diffs
             /\ all' = Without(all, s)
             /\ \/ gc' = NoGC
                \/ /\ gc'.stage = gc.stage /\ gc'.latest = gc.latest
                   /\ gc'.seen = gc.seen /\ gc'.drop = gc.drop
                   /\ gc'.rem = gc.rem \ {s}
  <2> DEFINE r == gc.rem \ {s}
  <2>1. /\ gc' = NoGC \/ gc' = [gc EXCEPT !.rem = r]
        /\ s \in gc.rem /\ gc.stage = "drop" /\ UNCHANGED diffs /\ all' = Without(all, s)
    BY <1>6 DEF RemSerial
  <2>2. r \subseteq Nat
    BY <1>0 DEF GCs
  <2> HIDE DEF r
  <2>3. CASE gc' = NoGC
    BY <2>1, <2>3, NoGCType
  <2>4. CASE gc' = [gc EXCEPT !.rem = r]
    <3>1. /\ gc' \in GCs /\ gc'.stage = gc.stage /\ gc'.latest = gc.latest
          /\ gc'.seen = gc.seen /\ gc'.drop = gc.drop /\ gc'.rem = r
      BY <1>0, <2>2, <2>4 DEF GCs
    <3>2. QED BY <2>1, <3>1 DEF r
  <2>5. QED BY <2>1, <2>3, <2>4
<1>7. CASE \E s \in Serials : DropKeys(s)
  BY <1>1, <1>5, <1>7
<1>8. CASE \E s \in Serials : RemSerial(s)
  BY <1>1, <1>6, <1>8
<1>9. QED BY <1>2, <1>3, <1>4, <1>7, <1>8 DEF GCStep

LEMMA GCTypes ==
    ASSUME TypeOK, GCStep
    PROVE  TypeOK'
<1>1. /\ UNCHANGED <<content, latest, record, job, xfer, check, peer, version, bounds>>
      /\ gc' \in GCs
  BY GCCases
<1>2. all' \in Seq(Nat)
  <2>1. all \in Seq(Nat)
    BY DEF TypeOK
  <2>2. UNCHANGED all \/ \E s \in gc.rem : all' = Without(all, s)
    BY GCCases
  <2>3. QED BY <2>1, <2>2, WithoutKeeps
<1>3. diffs' \subseteq diffs
  BY GCCases
<1>4. UNCHANGED Serials
  BY DEF Serials, SerialOf
<1>5. QED BY <1>1, <1>2, <1>3, <1>4 DEF TypeOK

LEMMA RestartTypes ==
    ASSUME TypeOK, Restart
    PROVE  TypeOK'
<1>1. /\ xfer' = [p \in Peers |-> NoXfer] /\ check' = [p \in Peers |-> NoCheck] /\ gc' = NoGC
      /\ restarts < MaxRestarts /\ restarts' = restarts + 1
      /\ UNCHANGED <<content, latest, all, diffs, record, job, peer, version, commits, deletes,
                     unanswered, errors>>
  BY DEF Restart, redis
<1>2. xfer' \in [Peers -> Xfers] /\ check' \in [Peers -> Checks] /\ gc' \in GCs
  BY <1>1, NoXferType, NoGCType DEF Checks
<1>3. restarts' \in 0..MaxRestarts
  BY <1>1, PeersAssumption DEF TypeOK, bounds
<1>4. bounds' \in (0..MaxCommits) \X (0..MaxDeletes) \X (0..MaxRestarts)
                    \X (0..MaxUnanswered) \X (0..MaxErrors)
  BY <1>1, <1>3 DEF TypeOK, bounds
<1>5. UNCHANGED Serials
  BY DEF Serials, SerialOf
<1>6. QED BY <1>1, <1>2, <1>4, <1>5 DEF TypeOK

-----------------------------------------------------------------------------
(* The list of serials.                                                    *)

LEMMA SameLists ==
    ASSUME ListInv, UNCHANGED <<latest, all, job, commits>>
    PROVE  ListInv'
  BY DEF ListInv, Logged, Begun

LEMMA ListIncreasing == ListInv => Increasing(all)
  BY DEF ListInv, Increasing

LEMMA Counts ==
    ASSUME TypeOK, ListInv
    PROVE  /\ commits \in Nat /\ latest \in Nat /\ job.serial \in Nat
           /\ job.stage = "idle" => latest = 2 * commits
           /\ job.stage # "idle" => /\ commits # 0 /\ latest = 2 * commits - 2
                                    /\ job.serial = 2 * commits /\ job.serial = latest + 2
<1>1. commits \in Nat /\ latest \in Nat /\ job.serial \in Nat
  <2>1. commits \in 0..MaxCommits /\ MaxCommits \in Nat
    BY PeersAssumption DEF TypeOK, bounds
  <2>2. QED BY <2>1, Fields
<1>2. QED BY <1>1 DEF ListInv, SerialOf

LEMMA BegunOf ==
    ASSUME commits \in Nat
    PROVE  \A s \in Begun : s \in Nat /\ s # 0 /\ s <= 2 * commits
  BY DEF Begun, SerialOf

LEMMA BegunGrows ==
    ASSUME commits \in Nat, commits' = commits \/ commits' = commits + 1
    PROVE  Begun \subseteq Begun'
<1>1. 1..commits \subseteq 1..commits'
  OBVIOUS
<1>2. QED BY <1>1 DEF Begun, SerialOf

LEMMA JobLists ==
    ASSUME TypeOK, ListInv, (\E C \in Changes : StartJob(C)) \/ JobStep
    PROVE  /\ ListInv' /\ latest <= latest' /\ Begun \subseteq Begun'
           /\ Logged \subseteq Logged'
           /\ all' = all \/ (/\ job.stage = "names" /\ job'.stage = "latest"
                             /\ all' = Append(all, job.serial))
<1>0. /\ commits \in Nat /\ latest \in Nat /\ job.serial \in Nat
      /\ job.stage = "idle" => latest = 2 * commits
      /\ job.stage # "idle" => /\ commits # 0 /\ latest = 2 * commits - 2
                               /\ job.serial = 2 * commits /\ job.serial = latest + 2
  BY Counts
<1>a. all \in Seq(Nat) /\ job \in Jobs
  BY Fields
<1>1. CASE \E C \in Changes : StartJob(C)
  <2>1. /\ job.stage = "idle" /\ commits' = commits + 1 /\ UNCHANGED <<latest, all>>
        /\ job'.stage = "remove" /\ job'.serial = SerialOf(commits + 1)
    BY <1>1 DEF StartJob, redis
  <2>2. Begun \subseteq Begun'
    BY <1>0, <2>1, BegunGrows
  <2>3. Logged \subseteq Logged'
    BY <2>1, <2>2 DEF Logged
  <2>4. latest' = SerialOf(commits' - 1)
    BY <1>0, <2>1 DEF SerialOf
  <2>5. /\ \A i \in 1..Len(all) : all[i] \in Logged'
        /\ \A i, j \in 1..Len(all) : i < j => all[i] < all[j]
    BY <1>a, <2>3 DEF ListInv
  <2>6. ListInv'
    BY <1>0, <2>1, <2>4, <2>5 DEF ListInv
  <2>7. QED BY <1>0, <2>1, <2>2, <2>3, <2>6
<1>2. ASSUME UNCHANGED <<latest, all, commits>>, job.stage # "idle", job'.stage # "idle",
             job.stage # "latest", job'.serial = job.serial
      PROVE  ListInv' /\ Begun \subseteq Begun' /\ Logged \subseteq Logged'
  <2>1. UNCHANGED Begun
    BY <1>2 DEF Begun
  <2>2. Logged \subseteq Logged'
    BY <1>2, <2>1 DEF Logged
  <2>3. QED BY <1>a, <1>2, <2>1, <2>2 DEF ListInv
<1>3. CASE PushRemoves \/ PushAdds \/ \E n \in Names : CommitName(n)
  <2>1. /\ UNCHANGED <<latest, all, commits>> /\ job.stage # "idle" /\ job'.stage # "idle"
        /\ job.stage # "latest" /\ job'.serial = job.serial
    BY <1>3, <1>a DEF PushRemoves, PushAdds, CommitName, Jobs
  <2>2. QED BY <1>0, <1>2, <2>1
<1>4. CASE PushAll
  <2>1. /\ UNCHANGED <<latest, commits>> /\ job.stage = "names" /\ job'.stage = "latest"
        /\ job'.serial = job.serial /\ all' = Append(all, job.serial)
    BY <1>4, <1>a DEF PushAll, Jobs
  <2>2. UNCHANGED Begun
    BY <2>1 DEF Begun
  <2>3. Logged \subseteq Logged'
    BY <2>1, <2>2 DEF Logged
  <2>4. job.serial \in Begun
    <3>1. commits \in 1..commits /\ job.serial = SerialOf(commits)
      BY <1>0, <2>1 DEF ListInv
    <3>2. QED BY <3>1 DEF Begun
  <2>5. job.serial \in Logged'
    BY <2>1, <2>2, <2>4 DEF Logged
  <2>6. \A i \in 1..Len(all) : all[i] \in Nat /\ all[i] <= latest /\ all[i] \in Logged'
    BY <1>a, <2>1, <2>3 DEF ListInv, Logged
  <2> DEFINE n == Len(all)
  <2>7. /\ Len(all') = n + 1 /\ all'[n + 1] = job.serial /\ \A i \in 1..n : all'[i] = all[i]
        /\ n \in Nat
    BY <1>a, <1>0, <2>1
  <2>8. \A i \in 1..Len(all') : i \in 1..n \/ i = n + 1
    BY <2>7
  <2>9. \A i \in 1..Len(all') : all'[i] \in Logged'
    BY <2>5, <2>6, <2>7, <2>8
  <2>10. \A i, j \in 1..Len(all') : i < j => all'[i] < all'[j]
    <3> SUFFICES ASSUME NEW i \in 1..Len(all'), NEW j \in 1..Len(all'), i < j
                 PROVE  all'[i] < all'[j]
      OBVIOUS
    <3>1. i \in 1..n
      BY <2>7
    <3>2. CASE j \in 1..n
      BY <2>7, <3>1, <3>2 DEF ListInv
    <3>3. CASE j = n + 1
      BY <1>0, <2>1, <2>6, <2>7, <3>1, <3>3
    <3>4. QED BY <2>8, <3>2, <3>3
  <2>11. ListInv'
    BY <2>1, <2>9, <2>10 DEF ListInv
  <2>12. QED BY <1>0, <2>1, <2>2, <2>3, <2>11
<1>5. CASE SetLatest
  <2>1. /\ UNCHANGED <<commits, all>> /\ job.stage = "latest" /\ latest' = job.serial
        /\ job' = NoJob
    BY <1>5 DEF SetLatest
  <2>2. job'.stage = "idle"
    BY <2>1 DEF NoJob
  <2>3. UNCHANGED Begun
    BY <2>1 DEF Begun
  <2>4. Logged \subseteq Logged'
    <3> SUFFICES ASSUME NEW s \in Logged PROVE s \in Logged'
      OBVIOUS
    <3>1. s \in Begun /\ s <= latest'
      BY <1>0, <2>1, BegunOf DEF Logged
    <3>2. QED BY <2>3, <3>1 DEF Logged
  <2>5. /\ \A i \in 1..Len(all) : all[i] \in Logged'
        /\ \A i, j \in 1..Len(all) : i < j => all[i] < all[j]
    BY <1>a, <2>4 DEF ListInv
  <2>6. ListInv'
    BY <1>0, <2>1, <2>2, <2>5 DEF ListInv
  <2>7. QED BY <1>0, <2>1, <2>3, <2>4, <2>6
<1>6. QED BY <1>1, <1>3, <1>4, <1>5 DEF JobStep

LEMMA GCLists ==
    ASSUME TypeOK, ListInv, GCStep
    PROVE  ListInv'
<1>1. UNCHANGED <<latest, job, commits>>
  BY GCCases DEF bounds
<1>2. CASE UNCHANGED all
  BY <1>1, <1>2, SameLists
<1>3. ASSUME NEW s \in gc.rem, all' = Without(all, s) PROVE ListInv'
  <2>1. all \in Seq(Nat) /\ Increasing(all)
    BY Fields, ListIncreasing
  <2>2. /\ \A k \in 1..Len(all') : \E i \in 1..Len(all) : all'[k] = all[i]
        /\ Increasing(all')
    BY <1>3, <2>1, WithoutKeeps
  <2>3. Logged' = Logged
    BY <1>1 DEF Logged, Begun
  <2>4. \A k \in 1..Len(all') : all'[k] \in Logged'
    BY <2>2, <2>3 DEF ListInv
  <2>5. QED BY <1>1, <2>2, <2>4 DEF ListInv, Increasing
<1>4. QED BY <1>2, <1>3, GCCases

-----------------------------------------------------------------------------
(* The collection and the transfers.                                       *)

LEMMA PeersGrow ==
    ASSUME TypeOK, IInv, NEW p \in Peers, PeerTakes(p)
    PROVE  \A q \in Peers : peer[q].serial <= peer'[q].serial
<1>1. /\ \A q \in Peers \ {p} : peer'[q] = peer[q]
      /\ peer'[p].serial = xfer[p].serial \/ peer'[p].serial = peer[p].serial
      /\ xfer[p].stage = "sent"
  BY TakesOf
<1>2. peer[p].serial <= xfer[p].serial
  BY <1>1 DEF IInv, HonestInv
<1>3. \A q \in Peers : peer[q].serial \in Nat
  BY Fields
<1>4. QED BY <1>1, <1>2, <1>3

LEMMA GCKept ==
    ASSUME TypeOK, GCInv, UNCHANGED gc, latest' \in Nat, latest <= latest', NEW x \in Nat,
           all' = all \/ all' = Append(all, x),
           \A q \in Peers : peer'[q].serial \in Nat /\ peer[q].serial <= peer'[q].serial
    PROVE  GCInv'
<1>0. /\ gc.latest \in Nat /\ latest \in Nat /\ all \in Seq(Nat)
      /\ \A q \in Peers : gc.seen[q] \in Nat /\ peer[q].serial \in Nat
  BY Fields, GCFields
<1>1. \A i \in 1..Len(all) : i \in 1..Len(all') /\ all'[i] = all[i]
  BY <1>0
<1>2. gc.latest <= latest' /\ \A q \in Peers : gc.seen[q] <= peer'[q].serial
  BY <1>0 DEF GCInv
<1>3. ASSUME NEW s \in gc.drop \cup gc.rem
      PROVE  /\ s < gc.latest
             /\ \A p \in Peers : gc.seen[p] # 0 =>
                   \E i \in 1..Len(all') : /\ all'[i] \notin gc.drop \cup gc.rem
                                           /\ s < all'[i] /\ all'[i] < gc.seen[p]
  BY <1>1 DEF GCInv
<1>4. gc.stage # "drop" => gc.drop = {} /\ gc.rem = {}
  BY DEF GCInv
<1>5. QED BY <1>2, <1>3, <1>4 DEF GCInv

(* What is doomed is below every serial that is needed, and the last       *)
(* serial below such a one is not doomed.                                  *)
LEMMA DoomedOf ==
    ASSUME TypeOK, Increasing(all), NEW s \in Doomed, NEW t \in Needed
    PROVE  s < t /\ \E i \in 1..Len(all) : all[i] \notin Doomed /\ s < all[i] /\ all[i] < t
<1>0. all \in Seq(Nat) /\ Len(all) \in Nat
  BY Fields
<1>1. PICK j \in Old : s = all[j] /\ \E k, l \in Old : j < k /\ k < l
  BY DEF Doomed
<1>2. Old \subseteq 1..Len(all) /\ \A i \in Old : all[i] < t
  BY DEF Old
<1>3. PICK m \in Old : \A k \in Old : k <= m
  <2>1. Old # {} /\ Old \in SUBSET (1..Len(all))
    BY <1>1, <1>2
  <2>2. QED BY <1>0, <2>1, Greatest
<1>4. j < m
  BY <1>1, <1>2, <1>3
<1>5. all[j] < all[m] /\ all[m] < t
  BY <1>2, <1>4 DEF Increasing
<1>6. all[m] \notin Doomed
  <2>1. SUFFICES ASSUME all[m] \in Doomed PROVE FALSE
    OBVIOUS
  <2>2. PICK i \in Old : all[i] = all[m] /\ \E k, l \in Old : i < k /\ k < l
    BY <2>1 DEF Doomed
  <2>3. i < m
    BY <1>2, <1>3, <2>2
  <2>4. all[i] < all[m] /\ all[m] \in Nat
    BY <1>0, <1>2, <2>3 DEF Increasing
  <2>5. QED BY <2>2, <2>4
<1>7. QED BY <1>1, <1>2, <1>5, <1>6

LEMMA CollectKeeps ==
    ASSUME TypeOK, ListInv, IInv, GCInv, GCStep
    PROVE  GCInv'
<1>0. /\ gc.latest \in Nat /\ latest \in Nat /\ all \in Seq(Nat)
      /\ \A q \in Peers : gc.seen[q] \in Nat /\ peer[q].serial \in Nat
      /\ Increasing(all)
  BY Fields, GCFields, ListIncreasing
<1>1. UNCHANGED <<latest, record, peer>>
  BY GCCases
<1>2. CASE gc' = NoGC
  BY <1>0, <1>1, <1>2, NoGCType DEF GCInv
<1>3. CASE /\ gc.stage = "idle" /\ UNCHANGED <<all, diffs>>
           /\ gc'.stage = "zones" /\ gc'.latest = latest /\ gc'.seen = gc.seen
           /\ gc'.drop = gc.drop /\ gc'.rem = gc.rem
  BY <1>0, <1>1, <1>3 DEF GCInv
<1>4. CASE /\ gc.stage = "zones" /\ UNCHANGED <<all, diffs>>
           /\ gc'.stage = "peers" /\ gc'.latest = gc.latest /\ gc'.seen = record
           /\ gc'.drop = gc.drop /\ gc'.rem = gc.rem
  <2>1. \A p \in Peers : record[p] <= peer[p].serial
    BY DEF IInv, HonestInv
  <2>2. gc'.drop = {} /\ gc'.rem = {}
    BY <1>4 DEF GCInv
  <2>3. QED BY <1>0, <1>1, <1>4, <2>1, <2>2 DEF GCInv
<1>5. CASE /\ gc.stage = "peers" /\ UNCHANGED <<all, diffs>>
           /\ gc'.stage = "drop" /\ gc'.latest = gc.latest /\ gc'.seen = gc.seen
           /\ gc'.drop = Doomed /\ gc'.rem = gc.rem
  <2>1. gc'.drop \cup gc'.rem = Doomed
    BY <1>5 DEF GCInv
  <2>2. ASSUME NEW s \in Doomed
        PROVE  /\ s < gc.latest
               /\ \A p \in Peers : gc.seen[p] # 0 =>
                     \E i \in 1..Len(all) : all[i] \notin Doomed /\ s < all[i]
                                              /\ all[i] < gc.seen[p]
    <3>1. gc.latest \in Needed /\ \A p \in Peers : gc.seen[p] # 0 => gc.seen[p] \in Needed
      BY DEF Needed
    <3>2. QED BY <1>0, <3>1, DoomedOf
  <2>3. gc.latest <= latest /\ \A p \in Peers : gc.seen[p] <= peer[p].serial
    BY DEF GCInv
  <2>4. QED BY <1>1, <1>5, <2>1, <2>2, <2>3 DEF GCInv
<1>6. CASE \E s \in gc.drop :
             /\ gc.stage = "drop" /\ UNCHANGED all
             /\ diffs' = {e \in diffs : s \notin {e.from, e.to}}
             /\ gc'.stage = gc.stage /\ gc'.latest = gc.latest /\ gc'.seen = gc.seen
             /\ gc'.drop = gc.drop \ {s} /\ gc'.rem = gc.rem \cup {s}
  <2>1. /\ gc'.drop \cup gc'.rem = gc.drop \cup gc.rem /\ gc'.stage = "drop"
        /\ gc'.latest = gc.latest /\ gc'.seen = gc.seen /\ UNCHANGED all
    BY <1>6
  <2>2. QED BY <1>1, <2>1 DEF GCInv
<1>7. ASSUME NEW s \in gc.rem, gc.stage = "drop", all' = Without(all, s),
             gc'.stage = gc.stage, gc'.latest = gc.latest, gc'.seen = gc.seen,
             gc'.drop = gc.drop, gc'.rem = gc.rem \ {s}
      PROVE  GCInv'
  <2>1. \A i \in 1..Len(all) : all[i] # s => \E k \in 1..Len(all') : all'[k] = all[i]
    <3>1. \A i \in 1..Len(all) : all[i] # s =>
             \E k \in 1..Len(Without(all, s)) : Without(all, s)[k] = all[i]
      BY <1>0, WithoutKeeps
    <3>2. QED BY <1>7, <3>1
  <2>2. ASSUME NEW d \in gc'.drop \cup gc'.rem
        PROVE  /\ d < gc.latest
               /\ \A p \in Peers : gc.seen[p] # 0 =>
                     \E k \in 1..Len(all') : /\ all'[k] \notin gc'.drop \cup gc'.rem
                                             /\ d < all'[k] /\ all'[k] < gc.seen[p]
    <3>1. d \in gc.drop \cup gc.rem
      BY <1>7
    <3>2. d < gc.latest
      BY <3>1 DEF GCInv
    <3>3. ASSUME NEW p \in Peers, gc.seen[p] # 0
          PROVE  \E k \in 1..Len(all') : /\ all'[k] \notin gc'.drop \cup gc'.rem
                                         /\ d < all'[k] /\ all'[k] < gc.seen[p]
      <4>1. PICK i \in 1..Len(all) : /\ all[i] \notin gc.drop \cup gc.rem
                                     /\ d < all[i] /\ all[i] < gc.seen[p]
        BY <3>1, <3>3 DEF GCInv
      <4>2. PICK k \in 1..Len(all') : all'[k] = all[i]
        BY <1>7, <2>1, <4>1
      <4>3. QED BY <1>7, <4>1, <4>2
    <3>4. QED BY <3>2, <3>3
  <2>3. gc.latest <= latest /\ \A p \in Peers : gc.seen[p] <= peer[p].serial
    BY DEF GCInv
  <2>4. QED BY <1>1, <1>7, <2>2, <2>3 DEF GCInv
<1>8. QED BY <1>2, <1>3, <1>4, <1>5, <1>6, <1>7, GCCases

(* The same of one transfer.                                               *)
TodoOf(x) ==
    x.stage # "none" =>
        /\ x.base = 0 \/ x.base < latest
        /\ \A i \in 1..Len(x.todo), k \in {1, 2} :
              LET s == x.todo[i][k] IN s >= x.base \/ NoneBetween(s, x.base)

LEMMA TodoEach == TodoInv <=> \A p \in Peers : TodoOf(xfer[p])
  BY DEF TodoInv, TodoOf

LEMMA TodoKept ==
    ASSUME TypeOK, TodoInv, UNCHANGED xfer, latest' \in Nat, latest <= latest',
           \/ \A k \in 1..Len(all') : \E i \in 1..Len(all) : all'[k] = all[i]
           \/ all' = Append(all, latest + 2)
    PROVE  TodoInv'
<1>0. latest \in Nat /\ all \in Seq(Nat)
  BY Fields
<1>1. ASSUME NEW p \in Peers, xfer[p].stage # "none"
      PROVE  /\ xfer[p].base = 0 \/ xfer[p].base < latest'
             /\ \A i \in 1..Len(xfer[p].todo), k \in {1, 2} :
                   LET s == xfer[p].todo[i][k]
                   IN  s >= xfer[p].base \/ (NoneBetween(s, xfer[p].base))'
  <2> DEFINE base == xfer[p].base
  <2>1. base \in Nat /\ (base = 0 \/ base < latest)
    BY <1>1, Fields DEF TodoInv, Xfers
  <2>2. ASSUME NEW s, \A i \in 1..Len(all) : all[i] <= s \/ all[i] >= base
        PROVE  \A i \in 1..Len(all') : all'[i] <= s \/ all'[i] >= base
    <3>1. CASE \A k \in 1..Len(all') : \E i \in 1..Len(all) : all'[k] = all[i]
      BY <2>2, <3>1
    <3>2. CASE all' = Append(all, latest + 2)
      <4>1. \A i \in 1..Len(all') : (i \in 1..Len(all) /\ all'[i] = all[i])
                                      \/ all'[i] = latest + 2
        BY <1>0, <3>2
      <4>2. latest + 2 >= base
        BY <1>0, <2>1
      <4>3. QED BY <2>2, <4>1, <4>2
    <3>3. QED BY <3>1, <3>2
  <2>3. ASSUME NEW i \in 1..Len(xfer[p].todo), NEW k \in {1, 2}
        PROVE  xfer[p].todo[i][k] >= base
                 \/ \A j \in 1..Len(all') : all'[j] <= xfer[p].todo[i][k] \/ all'[j] >= base
    <3>1. xfer[p].todo[i][k] >= base
            \/ \A j \in 1..Len(all) : all[j] <= xfer[p].todo[i][k] \/ all[j] >= base
      BY <1>1 DEF TodoInv, NoneBetween
    <3>2. QED BY <2>2, <3>1
  <2>4. base = 0 \/ base < latest'
    BY <1>0, <2>1
  <2>5. QED BY <2>3, <2>4 DEF NoneBetween
<1>2. QED BY <1>1 DEF TodoInv, NoneBetween

LEMMA XferTodos ==
    ASSUME TypeOK, XferInv, ListInv, TodoInv, NEW p \in Peers,
           Ask(p) \/ XferStep(p) \/ ReadFails(p)
    PROVE  TodoInv'
<1>0. all \in Seq(Nat) /\ Increasing(all) /\ xfer[p] \in Xfers
  BY Fields, ListIncreasing
<1>1. /\ OnlyXfer(p)
      /\ \/ Asked(p)
         \/ GoesOn(p)
         \/ xfer'[p] = NoXfer
  BY <1>0, XferCases, TakesOf
<1>2. TodoOf(xfer[p])
  BY TodoEach
<1>3. TodoOf(xfer'[p])
  <2>1. CASE Asked(p)
    BY <2>1 DEF Asked, TodoOf
  <2>2. CASE xfer'[p] = NoXfer
    BY <2>2 DEF TodoOf, NoXfer
  <2>3. ASSUME SameAim(xfer[p], xfer'[p]), xfer[p].stage # "none",
               xfer'[p].todo = xfer[p].todo
        PROVE  TodoOf(xfer'[p])
    BY <1>2, <2>3 DEF TodoOf, SameAim
  <2>4. CASE SameAim(xfer[p], xfer'[p]) /\ Listed(p)
    <3> DEFINE c == Chain(all, xfer[p].base)
    <3>1. xfer[p].base \in Nat
      BY <1>0 DEF Xfers
    <3>2. \A i \in 1..Len(c) : \A k \in {1, 2} :
             \/ c[i][k] >= xfer[p].base
             \/ \A j \in 1..Len(all) : all[j] <= c[i][k] \/ all[j] >= xfer[p].base
      BY <1>0, <3>1, ChainOf
    <3>3. xfer'[p].todo = c /\ xfer[p].stage # "none"
      BY <2>4 DEF Listed
    <3> HIDE DEF c
    <3>4. QED BY <1>2, <2>4, <3>2, <3>3 DEF TodoOf, SameAim, NoneBetween
  <2>5. CASE SameAim(xfer[p], xfer'[p]) /\ StepSent(p)
    <3> DEFINE t == xfer[p].todo
    <3>1. t \in Seq(Nat \X Nat) /\ t # <<>> /\ xfer[p].stage # "none" /\ xfer'[p].todo = Tail(t)
      BY <1>0, <2>5 DEF StepSent, XferInv, Xfers
    <3>2. \A i \in 1..Len(Tail(t)) : i + 1 \in 1..Len(t) /\ Tail(t)[i] = t[i + 1]
      <4> HIDE DEF t
      <4>1. QED BY <3>1
    <3>3. QED BY <1>2, <2>5, <3>1, <3>2 DEF TodoOf, SameAim
  <2>6. CASE GoesOn(p)
    <3>1. CASE Removed(p) \/ Named(p) \/ Torn(p)
      BY <2>3, <2>6, <3>1 DEF GoesOn, Removed, Named, Torn
    <3>2. QED BY <2>4, <2>5, <2>6, <3>1 DEF GoesOn
  <2>7. QED BY <1>1, <2>1, <2>2, <2>6
<1>4. \A q \in Peers : TodoOf(xfer'[q])
  BY <1>1, <1>3, TodoEach DEF OnlyXfer
<1>5. UNCHANGED <<all, latest>>
  BY <1>1 DEF OnlyXfer
<1>6. QED BY <1>4, <1>5 DEF TodoInv, TodoOf, NoneBetween

LEMMA SpareInit == Init => SpareInv
<1> SUFFICES ASSUME Init PROVE SpareInv
  OBVIOUS
<1>1. /\ content = {} /\ latest = 0 /\ all = <<>> /\ diffs = {}
      /\ record = [p \in Peers |-> 0] /\ job = NoJob /\ gc = NoGC
      /\ xfer = [p \in Peers |-> NoXfer] /\ check = [p \in Peers |-> NoCheck]
      /\ peer = [p \in Peers |-> [serial |-> 0, recs |-> {}, axfr |-> TRUE, gap |-> FALSE]]
      /\ version = [s \in Serials \cup {0} |-> {}]
      /\ commits = 0 /\ deletes = 0 /\ restarts = 0 /\ unanswered = 0 /\ errors = 0
  BY DEF Init
<1>2. TypeOK
  <2>1. NoJob \in Jobs /\ NoJob.stage = "idle"
    BY DEF NoJob, Jobs
  <2>2. [serial |-> 0, recs |-> {}, axfr |-> TRUE, gap |-> FALSE] \in Copies
    BY DEF Copies
  <2>3. bounds \in (0..MaxCommits) \X (0..MaxDeletes) \X (0..MaxRestarts)
                    \X (0..MaxUnanswered) \X (0..MaxErrors)
    BY <1>1, PeersAssumption DEF bounds
  <2>4. NoCheck \in Checks
    BY DEF Checks
  <2>5. QED BY <1>1, <2>1, <2>2, <2>3, <2>4, NoXferType, NoGCType DEF TypeOK
<1>3. XferInv /\ TodoInv
  BY <1>1 DEF XferInv, TodoInv, NoXfer
<1>4. ListInv
  <2>1. job.stage = "idle" /\ Len(all) = 0
    BY <1>1 DEF NoJob
  <2>2. QED BY <1>1, <2>1 DEF ListInv, SerialOf
<1>5. GCInv
  <2>1. gc.drop \cup gc.rem = {} /\ gc.latest = 0 /\ \A p \in Peers : gc.seen[p] = 0
    BY <1>1, NoGCType
  <2>2. QED BY <1>1, <2>1, NoGCType DEF GCInv
<1>6. QED BY <1>2, <1>3, <1>4, <1>5, InitInv DEF SpareInv

LEMMA SpareStep == SpareInv /\ [Next]_vars => SpareInv'
<1> SUFFICES ASSUME SpareInv, [Next]_vars PROVE SpareInv'
  OBVIOUS
<1>0. TypeOK /\ XferInv /\ IInv /\ ListInv /\ GCInv /\ TodoInv
  BY DEF SpareInv
<1>a. /\ latest \in Nat /\ all \in Seq(Nat) /\ Increasing(all)
      /\ \A q \in Peers : peer[q].serial \in Nat
  BY <1>0, Fields, ListIncreasing
<1>1. IInv'
  BY <1>0, StepInv
<1>2. CASE (\E C \in Changes : StartJob(C)) \/ JobStep
  <2>1. TypeOK'
    BY <1>0, <1>2, StartTypes, JobTypes
  <2>2. UNCHANGED <<xfer, gc, peer>>
    BY <1>2, JobFrame DEF StartJob, JobUnchanged
  <2>3. /\ ListInv' /\ latest <= latest'
        /\ all' = all \/ (job.stage = "names" /\ all' = Append(all, job.serial))
    BY <1>0, <1>2, JobLists
  <2>4. latest' \in Nat
    BY <2>1 DEF TypeOK
  <2>5. XferInv'
    BY <1>0, <2>2 DEF XferInv
  <2>6. job.serial \in Nat /\ (job.stage = "names" => job.serial = latest + 2)
    BY <1>0, Counts
  <2>7. GCInv'
    BY <1>0, <1>a, <2>2, <2>3, <2>4, <2>6, GCKept
  <2>8. \/ \A k \in 1..Len(all') : \E i \in 1..Len(all) : all'[k] = all[i]
        \/ all' = Append(all, latest + 2)
    BY <2>3, <2>6
  <2>9. TodoInv'
    BY <1>0, <2>2, <2>3, <2>4, <2>8, TodoKept
  <2>10. QED BY <1>1, <2>1, <2>3, <2>5, <2>7, <2>9 DEF SpareInv
<1>3. ASSUME NEW p \in Peers, Ask(p) \/ XferStep(p) \/ ReadFails(p) PROVE SpareInv'
  <2>1. TypeOK' /\ XferInv'
    BY <1>0, <1>a, <1>3, XferTypes
  <2>2. TodoInv'
    BY <1>0, <1>3, XferTodos
  <2>3. OnlyXfer(p) /\ (UNCHANGED peer \/ PeerTakes(p))
    BY <1>0, <1>a, <1>3, XferCases DEF GoesOn
  <2>4. ListInv'
    BY <1>0, <2>3, SameLists DEF OnlyXfer
  <2>5. \A q \in Peers : peer'[q].serial \in Nat /\ peer[q].serial <= peer'[q].serial
    <3>1. \A q \in Peers : peer'[q].serial \in Nat
      BY <2>1 DEF TypeOK, Copies
    <3>2. QED BY <1>0, <1>a, <2>3, <3>1, PeersGrow
  <2>6. UNCHANGED <<latest, all, gc>> /\ 0 \in Nat
    BY <2>3 DEF OnlyXfer
  <2>7. GCInv'
    BY <1>0, <1>a, <2>5, <2>6, GCKept
  <2>8. QED BY <1>1, <2>1, <2>2, <2>4, <2>7 DEF SpareInv
<1>4. ASSUME NEW p \in Peers, CheckStep(p) \/ DeletePeer(p) PROVE SpareInv'
  <2>1. /\ TypeOK'
        /\ UNCHANGED <<content, latest, all, diffs, job, xfer, gc, peer, version, commits>>
    BY <1>0, <1>4, CheckTypes
  <2>2. ListInv'
    BY <1>0, <2>1, SameLists
  <2>3. XferInv' /\ TodoInv' /\ GCInv'
    BY <1>0, <2>1 DEF XferInv, TodoInv, GCInv, NoneBetween
  <2>4. QED BY <1>1, <2>1, <2>2, <2>3 DEF SpareInv
<1>5. CASE GCStep
  <2>1. TypeOK' /\ ListInv' /\ GCInv'
    BY <1>0, <1>5, GCTypes, GCLists, CollectKeeps
  <2>2. /\ UNCHANGED <<latest, xfer, peer>>
        /\ UNCHANGED all \/ \E s \in gc.rem : all' = Without(all, s)
    BY <1>0, <1>5, GCCases
  <2>3. \A k \in 1..Len(all') : \E i \in 1..Len(all) : all'[k] = all[i]
    <3>1. ASSUME NEW s, all' = Without(all, s)
          PROVE  \A k \in 1..Len(all') : \E i \in 1..Len(all) : all'[k] = all[i]
      BY <1>a, <3>1, WithoutKeeps
    <3>2. QED BY <2>2, <3>1
  <2>a. latest' \in Nat /\ latest <= latest' /\ UNCHANGED xfer
    BY <1>a, <2>2
  <2>4. TodoInv'
    BY <1>0, <2>a, <2>3, TodoKept
  <2>5. XferInv'
    BY <1>0, <2>2 DEF XferInv
  <2>6. QED BY <1>1, <2>1, <2>4, <2>5 DEF SpareInv
<1>6. CASE Restart
  <2>1. TypeOK'
    BY <1>0, <1>6, RestartTypes
  <2>2. /\ UNCHANGED <<latest, all, job, commits, peer>>
        /\ xfer' = [p \in Peers |-> NoXfer] /\ gc' = NoGC
    BY <1>6 DEF Restart, redis
  <2>3. ListInv'
    BY <1>0, <2>2, SameLists
  <2>4. XferInv' /\ TodoInv'
    BY <2>2 DEF XferInv, TodoInv, NoXfer
  <2>5. gc'.drop \cup gc'.rem = {} /\ gc'.latest = 0 /\ \A p \in Peers : gc'.seen[p] = 0
    BY <2>2, NoGCType
  <2>6. GCInv'
    BY <1>a, <2>2, <2>5, NoGCType DEF GCInv
  <2>7. QED BY <1>1, <2>1, <2>3, <2>4, <2>6 DEF SpareInv
<1>7. CASE UNCHANGED vars
  <2>1. UNCHANGED <<content, latest, all, diffs, record, job, xfer, check, gc, peer, version,
                    commits, deletes, restarts, unanswered, errors>>
    BY <1>7 DEF vars, redis, bounds
  <2>2. ListInv'
    BY <1>0, <2>1, SameLists
  <2>3. XferInv' /\ TodoInv' /\ GCInv'
    BY <1>0, <2>1 DEF XferInv, TodoInv, GCInv, NoneBetween
  <2>4. TypeOK'
    BY <1>0, <2>1 DEF TypeOK, bounds, Serials, SerialOf
  <2>5. QED BY <1>1, <2>2, <2>3, <2>4 DEF SpareInv
<1>8. QED BY <1>2, <1>3, <1>4, <1>5, <1>6, <1>7 DEF Next

(* TypeOK: what is kept in redis, of the transfers, of the checks and of   *)
(* the collection has its type, and no check is armed without the serial   *)
(* that was sent (startCheckTimer at the end of handleAxfr and handleIxfr).*)
THEOREM TypeCorrect == Spec => []TypeOK
<1>1. SpareInv => TypeOK
  BY DEF SpareInv
<1>2. QED BY <1>1, SpareInit, SpareStep, PTL DEF Spec

(* GCSparesKnownPeers: garbageCollect (lib/dns-server.js) drops no list    *)
(* that a transfer under way to a peer whose serial it has seen has yet to *)
(* read: it keeps the last serial below the lowest that is needed, and a   *)
(* transfer starts there at the earliest.                                  *)
THEOREM CollectionSparesPeers == Spec => GCSparesKnownPeers
<1> DEFINE Spared == \A s \in Serials, p \in Peers :
                       DropKeys(s) /\ gc.seen[p] # 0 =>
                         \A i \in 1..Len(xfer[p].todo) :
                            s \notin {xfer[p].todo[i][1], xfer[p].todo[i][2]}
<1>1. SpareInv => Spared
  <2> SUFFICES ASSUME SpareInv, NEW s \in Serials, NEW p \in Peers,
                      DropKeys(s), gc.seen[p] # 0,
                      NEW i \in 1..Len(xfer[p].todo), NEW k \in {1, 2},
                      s = xfer[p].todo[i][k]
               PROVE  FALSE
    BY DEF Spared
  <2>0. TypeOK /\ XferInv /\ GCInv /\ TodoInv
    BY DEF SpareInv
  <2>1. /\ xfer[p].base \in Nat /\ peer[p].serial \in Nat /\ gc.seen[p] \in Nat /\ s \in Nat
        /\ \A j \in 1..Len(all) : all[j] \in Nat
    <3>1. xfer[p] \in Xfers /\ all \in Seq(Nat) /\ peer[p].serial \in Nat
      BY <2>0, Fields
    <3>2. gc.seen[p] \in Nat /\ s \in Nat
      BY <2>0, GCFields, SerialsType
    <3>3. xfer[p].base \in Nat
      BY <3>1 DEF Xfers
    <3>4. QED BY <3>1, <3>2, <3>3
  <2>2. PICK j \in 1..Len(all) : s < all[j] /\ all[j] < gc.seen[p]
    BY <2>0 DEF DropKeys, GCInv
  <2>3. xfer[p].stage # "none"
    BY <2>0 DEF XferInv
  <2>4. gc.seen[p] <= xfer[p].base
    BY <2>0, <2>3 DEF XferInv, GCInv
  <2>5. s >= xfer[p].base \/ all[j] <= s \/ all[j] >= xfer[p].base
    BY <2>0, <2>3 DEF TodoInv, NoneBetween
  <2> DEFINE a == all[j]
             b == xfer[p].base
             g == gc.seen[p]
  <2>6. a \in Nat /\ b \in Nat /\ g \in Nat /\ s < a /\ a < g /\ g <= b
    BY <2>1, <2>2, <2>4
  <2>7. s >= b \/ a <= s \/ a >= b
    BY <2>5
  <2> HIDE DEF a, b, g
  <2>8. QED BY <2>1, <2>6, <2>7
<1>2. SpareInv /\ [Next]_vars => [Spared]_vars
  BY <1>1
<1>3. QED BY <1>2, SpareInit, SpareStep, PTL DEF Spec, GCSparesKnownPeers, Spared

-----------------------------------------------------------------------------
(* What a peer is given.  The invariants of one transfer and of one copy,  *)
(* with the parts of the state they are about as parameters.               *)

SettledIn(s, B, v) == {r \in Records : \A t \in B : t >= s => (r \in v[t] <=> r \in v[s])}

Agree(R, s, B, v) == \A r \in SettledIn(s, B, v) : r \in R <=> r \in v[s]

SoFarIn(x, l, B, v) ==
    /\ x.serial \in B /\ x.serial <= l
    /\ \A r \in x.recs : r[1] \notin x.left
    /\ \A r \in SettledIn(x.serial, B, v) : r[1] \notin x.left =>
          (r \in x.recs <=> r \in v[x.serial])

LeadsIn(sent, a, b, B, v) ==
    /\ a \in B /\ b \in B /\ a < b
    /\ \A r \in Records :
         /\ Added(r, sent) => r \in v[b]
         /\ ~Added(r, sent) /\ KeptFrom(r, 1, sent) =>
              \A t \in B : a <= t /\ t <= b => (r \in v[t] <=> r \in v[b])
         /\ r \in v[b] => Added(r, sent) \/ KeptFrom(r, 1, sent)

LeadingIn(sent, B, v) == LeadsIn(sent, sent[1].from, sent[Len(sent)].to, B, v)

ReadIn(x, l, L, B, v) ==
    x.stage # "none" =>
      /\ \A i \in 1..Len(x.todo) : {x.todo[i][1], x.todo[i][2]} \subseteq L
      /\ \A i \in 1..(Len(x.todo) - 1) : x.todo[i][2] = x.todo[i + 1][1]
      /\ x.sent # <<>> /\ x.todo # <<>> => Head(x.todo)[1] = x.sent[Len(x.sent)].to
      /\ x.stage \in {"list", "scan"} => x.sent = <<>>
      /\ ~x.gap =>
           /\ x.stage \in {"list", "scan"} => SoFarIn(x, l, B, v)
           /\ x.stage = "sent" /\ x.sent = <<>> => SoFarIn(x, l, B, v) /\ x.left = {}
           /\ x.stage = "adds" => /\ Head(x.todo)[2] = Head(x.todo)[1] + 2
                                  /\ x.recs = v[Head(x.todo)[1]] \ v[Head(x.todo)[2]]
           /\ x.sent # <<>> => LeadingIn(x.sent, B, v)

CopyIn(c, B, v) == c.serial # 0 /\ ~c.gap => c.serial \in B /\ Agree(c.recs, c.serial, B, v)

LEMMA SettledEach == \A s : Settled(s) = SettledIn(s, Begun, version)
  BY DEF Settled, SettledIn

LEMMA ReadEach == ReadInv <=> \A p \in Peers : ReadIn(xfer[p], latest, Logged, Begun, version)
  BY SettledEach DEF ReadInv, ReadIn, SoFar, SoFarIn, Leading, LeadingIn, LeadsIn, Differ

LEMMA ReadEachNext ==
    ReadInv' <=> \A p \in Peers : ReadIn(xfer'[p], latest', Logged', Begun', version')
  BY DEF ReadInv, ReadIn, SoFar, SoFarIn, Leading, LeadingIn, LeadsIn, Differ, Settled,
         SettledIn

LEMMA CopyEach ==
    CopyInv /\ PeerExact <=> \A p \in Peers : CopyIn(peer[p], Begun, version)
  BY SettledEach DEF CopyInv, PeerExact, CopyIn, Agree

LEMMA CopyEachNext ==
    CopyInv' /\ PeerExact' <=> \A p \in Peers : CopyIn(peer'[p], Begun', version')
  BY DEF CopyInv, PeerExact, CopyIn, Agree, Settled, SettledIn

(* A serial begun does not change what an earlier one was.                 *)
Grown(B, v, B2, v2) == /\ B \subseteq B2 /\ B2 \subseteq Nat /\ \A t \in B : v2[t] = v[t]
                       /\ \A t \in B2 \ B : \A s \in B : s < t

LEMMA SettledShrinks ==
    ASSUME NEW B, NEW v, NEW B2, NEW v2, Grown(B, v, B2, v2), NEW s \in B
    PROVE  SettledIn(s, B2, v2) \subseteq SettledIn(s, B, v)
  BY DEF Grown, SettledIn

LEMMA SoFarGrows ==
    ASSUME NEW B, NEW v, NEW B2, NEW v2, Grown(B, v, B2, v2), NEW x, NEW l \in Nat,
           NEW l2 \in Nat, l <= l2, SoFarIn(x, l, B, v)
    PROVE  SoFarIn(x, l2, B2, v2)
<1>1. x.serial \in B /\ x.serial <= l
  BY DEF SoFarIn
<1>2. x.serial \in B2 /\ x.serial <= l2 /\ v2[x.serial] = v[x.serial]
  <2>1. x.serial \in B2 /\ x.serial \in Nat /\ v2[x.serial] = v[x.serial]
    BY <1>1 DEF Grown
  <2>2. QED BY <1>1, <2>1
<1>3. SettledIn(x.serial, B2, v2) \subseteq SettledIn(x.serial, B, v)
  BY <1>1, SettledShrinks
<1>4. QED BY <1>2, <1>3 DEF SoFarIn

LEMMA LeadsGrows ==
    ASSUME NEW B, NEW v, NEW B2, NEW v2, Grown(B, v, B2, v2), NEW sent, NEW a, NEW b,
           LeadsIn(sent, a, b, B, v)
    PROVE  LeadsIn(sent, a, b, B2, v2)
<1>1. a \in B /\ b \in B /\ a < b /\ a \in B2 /\ b \in B2 /\ v2[b] = v[b]
  BY DEF LeadsIn, Grown
<1>2. \A t \in B2 : t <= b => t \in B /\ v2[t] = v[t]
  BY <1>1 DEF Grown
<1>3. QED BY <1>1, <1>2 DEF LeadsIn

LEMMA ReadGrows ==
    ASSUME NEW B, NEW v, NEW B2, NEW v2, Grown(B, v, B2, v2), NEW L \in SUBSET B, NEW L2,
           L \subseteq L2, NEW l \in Nat, NEW l2 \in Nat, l <= l2,
           NEW x \in Xfers, x.stage \in {"removes", "adds"} => x.todo # <<>>,
           ReadIn(x, l, L, B, v)
    PROVE  ReadIn(x, l2, L2, B2, v2)
<1>1. SUFFICES ASSUME x.stage # "none" PROVE ReadIn(x, l2, L2, B2, v2)
  BY DEF ReadIn
<1>2. x.stage = "adds" => {Head(x.todo)[1], Head(x.todo)[2]} \subseteq L
  <2>1. SUFFICES ASSUME x.stage = "adds" PROVE {Head(x.todo)[1], Head(x.todo)[2]} \subseteq L
    OBVIOUS
  <2>2. x.todo \in Seq(Nat \X Nat) /\ x.todo # <<>>
    BY <2>1 DEF Xfers
  <2>3. 1 \in 1..Len(x.todo) /\ Head(x.todo) = x.todo[1]
    BY <2>2
  <2>4. QED BY <1>1, <2>3 DEF ReadIn
<1>3. ASSUME x.stage = "adds", Head(x.todo)[2] = Head(x.todo)[1] + 2,
             x.recs = v[Head(x.todo)[1]] \ v[Head(x.todo)[2]]
      PROVE  x.recs = v2[Head(x.todo)[1]] \ v2[Head(x.todo)[2]]
  BY <1>2, <1>3 DEF Grown
<1>4. SoFarIn(x, l, B, v) => SoFarIn(x, l2, B2, v2)
  BY SoFarGrows
<1>5. LeadingIn(x.sent, B, v) => LeadingIn(x.sent, B2, v2)
  BY LeadsGrows DEF LeadingIn
<1>6. \A i \in 1..Len(x.todo) : {x.todo[i][1], x.todo[i][2]} \subseteq L2
  BY <1>1 DEF ReadIn
<1>7. QED BY <1>1, <1>3, <1>4, <1>5, <1>6 DEF ReadIn

LEMMA CopyGrows ==
    ASSUME NEW B, NEW v, NEW B2, NEW v2, Grown(B, v, B2, v2), NEW c, CopyIn(c, B, v)
    PROVE  CopyIn(c, B2, v2)
<1>1. ASSUME c.serial \in B, Agree(c.recs, c.serial, B, v)
      PROVE  c.serial \in B2 /\ Agree(c.recs, c.serial, B2, v2)
  <2>1. c.serial \in B2 /\ v2[c.serial] = v[c.serial]
    BY <1>1 DEF Grown
  <2>2. SettledIn(c.serial, B2, v2) \subseteq SettledIn(c.serial, B, v)
    BY <1>1, SettledShrinks
  <2>3. QED BY <1>1, <2>1, <2>2 DEF Agree
<1>2. QED BY <1>1 DEF CopyIn

(* Serials of one zone are even numbers, and no two of them closer.        *)
Spaced(B) == \A s, t \in B : s \in Nat /\ t \in Nat /\ (s < t => s + 2 <= t)

LEMMA LeadingFirst ==
    ASSUME NEW B, Spaced(B), NEW v, NEW a \in B, a + 2 \in B, NEW e,
           e = [from |-> a, to |-> a + 2, remove |-> v[a] \ v[a + 2],
                add |-> v[a + 2] \ v[a]]
    PROVE  LeadsIn(<<e>>, a, a + 2, B, v)
<1> DEFINE sent == <<e>>
<1>1. Len(sent) = 1 /\ sent[1] = e
  OBVIOUS
<1>2. a \in Nat /\ a < a + 2
  BY DEF Spaced
<1>3. \A r : KeptFrom(r, 2, sent) /\ (KeptFrom(r, 1, sent) <=> r \notin e.remove)
  BY <1>1 DEF KeptFrom
<1>4. \A r : Added(r, sent) <=> r \in e.add
  <2>1. 1..Len(sent) = {1}
    BY <1>1
  <2>2. \A r : KeptFrom(r, 1 + 1, sent)
    <3>1. (1 + 1)..1 = {}
      OBVIOUS
    <3>2. QED BY <1>1, <3>1 DEF KeptFrom
  <2>3. QED BY <1>1, <2>1, <2>2 DEF Added
<1> HIDE DEF sent
<1>5. \A r : /\ r \in e.remove <=> r \in v[a] /\ r \notin v[a + 2]
             /\ r \in e.add <=> r \in v[a + 2] /\ r \notin v[a]
  OBVIOUS
<1>6. \A t \in B : a <= t /\ t <= a + 2 => t = a \/ t = a + 2
  <2>1. \A t \in B : t \in Nat /\ (a < t => a + 2 <= t)
    BY DEF Spaced
  <2>2. QED BY <1>2, <2>1
<1>7. ASSUME NEW r \in Records
      PROVE  /\ Added(r, sent) => r \in v[a + 2]
             /\ ~Added(r, sent) /\ KeptFrom(r, 1, sent) =>
                  \A t \in B : a <= t /\ t <= a + 2 => (r \in v[t] <=> r \in v[a + 2])
             /\ r \in v[a + 2] => Added(r, sent) \/ KeptFrom(r, 1, sent)
  BY <1>3, <1>4, <1>5, <1>6
<1>8. LeadsIn(sent, a, a + 2, B, v)
  BY <1>2, <1>7 DEF LeadsIn
<1>9. QED BY <1>8 DEF sent

LEMMA LeadingNext ==
    ASSUME NEW B, Spaced(B), NEW v, NEW a, NEW b \in B, b + 2 \in B, NEW sent \in Seq(Steps),
           LeadsIn(sent, a, b, B, v), NEW e \in Steps,
           e.remove = v[b] \ v[b + 2], e.add = v[b + 2] \ v[b]
    PROVE  LeadsIn(Append(sent, e), a, b + 2, B, v)
<1> DEFINE n == Len(sent)
           more == Append(sent, e)
<1>1. /\ n \in Nat /\ Len(more) = n + 1 /\ more[n + 1] = e
      /\ \A i \in 1..n : more[i] = sent[i]
  OBVIOUS
<1> HIDE DEF more
<1>2. \A r : \A i \in 1..(n + 1) : KeptFrom(r, i, more) <=> KeptFrom(r, i, sent) /\ r \notin e.remove
  <2> SUFFICES ASSUME NEW r, NEW i \in 1..(n + 1)
               PROVE  KeptFrom(r, i, more) <=> KeptFrom(r, i, sent) /\ r \notin e.remove
    OBVIOUS
  <2>1. \A j \in i..(n + 1) : j \in i..n \/ j = n + 1
    BY <1>1
  <2>2. n + 1 \in i..(n + 1) /\ \A j \in i..n : j \in i..(n + 1) /\ j \in 1..n
    BY <1>1
  <2>3. QED BY <1>1, <2>1, <2>2 DEF KeptFrom
<1>3. \A r : KeptFrom(r, n + 2, more)
  <2>1. (n + 2)..(n + 1) = {}
    BY <1>1
  <2>2. QED BY <1>1, <2>1 DEF KeptFrom
<1>4. \A r : Added(r, more) <=> r \in e.add \/ (Added(r, sent) /\ r \notin e.remove)
  <2> SUFFICES ASSUME NEW r
               PROVE  Added(r, more) <=> r \in e.add \/ (Added(r, sent) /\ r \notin e.remove)
    OBVIOUS
  <2>1. \A i \in 1..(n + 1) : i \in 1..n \/ i = n + 1
    BY <1>1
  <2>2. n + 1 \in 1..(n + 1) /\ \A i \in 1..n : i \in 1..(n + 1) /\ i + 1 \in 1..(n + 1)
    BY <1>1
  <2>3. (n + 1) + 1 = n + 2
    BY <1>1
  <2>4. \A i \in 1..n : r \in more[i].add /\ KeptFrom(r, i + 1, more)
                          <=> r \in sent[i].add /\ KeptFrom(r, i + 1, sent) /\ r \notin e.remove
    BY <1>1, <1>2, <2>2
  <2>5. r \in more[n + 1].add /\ KeptFrom(r, (n + 1) + 1, more) <=> r \in e.add
    BY <1>1, <1>3, <2>3
  <2>6. Added(r, more) <=> \E i \in 1..(n + 1) : r \in more[i].add /\ KeptFrom(r, i + 1, more)
    BY <1>1 DEF Added
  <2>7. Added(r, sent) <=> \E i \in 1..n : r \in sent[i].add /\ KeptFrom(r, i + 1, sent)
    BY DEF Added
  <2>8. QED BY <2>1, <2>2, <2>4, <2>5, <2>6, <2>7
<1>5. \A r : KeptFrom(r, 1, more) <=> KeptFrom(r, 1, sent) /\ r \notin e.remove
  BY <1>1, <1>2
<1> HIDE DEF n
<1>6. a \in B /\ a < b /\ a \in Nat /\ b \in Nat /\ a < b + 2
  BY DEF LeadsIn, Spaced
<1>7. \A t \in B : t <= b + 2 => t <= b \/ t = b + 2
  <2>1. \A t \in B : t \in Nat /\ (b < t => b + 2 <= t)
    BY DEF Spaced
  <2>2. QED BY <1>6, <2>1
<1>8. \A r : /\ r \in e.remove <=> r \in v[b] /\ r \notin v[b + 2]
             /\ r \in e.add <=> r \in v[b + 2] /\ r \notin v[b]
  OBVIOUS
<1>9. ASSUME NEW r \in Records
      PROVE  /\ Added(r, more) => r \in v[b + 2]
             /\ ~Added(r, more) /\ KeptFrom(r, 1, more) =>
                  \A t \in B : a <= t /\ t <= b + 2 => (r \in v[t] <=> r \in v[b + 2])
             /\ r \in v[b + 2] => Added(r, more) \/ KeptFrom(r, 1, more)
  <2>1. /\ Added(r, sent) => r \in v[b]
        /\ ~Added(r, sent) /\ KeptFrom(r, 1, sent) =>
             \A t \in B : a <= t /\ t <= b => (r \in v[t] <=> r \in v[b])
        /\ r \in v[b] => Added(r, sent) \/ KeptFrom(r, 1, sent)
    BY DEF LeadsIn
  <2>2. Added(r, more) => r \in v[b + 2]
    BY <1>4, <1>8, <2>1
  <2>3. ASSUME ~Added(r, more), KeptFrom(r, 1, more), NEW t \in B, a <= t, t <= b + 2
        PROVE  r \in v[t] <=> r \in v[b + 2]
    <3>1. /\ r \in v[b] <=> r \in v[b + 2]
          /\ ~Added(r, sent) /\ KeptFrom(r, 1, sent)
      BY <1>4, <1>5, <1>8, <2>3
    <3>2. QED BY <1>7, <2>1, <2>3, <3>1
  <2>4. r \in v[b + 2] => Added(r, more) \/ KeptFrom(r, 1, more)
    BY <1>4, <1>5, <1>8, <2>1
  <2>5. QED BY <2>2, <2>3, <2>4
<1>10. LeadsIn(more, a, b + 2, B, v)
  BY <1>6, <1>9 DEF LeadsIn
<1>11. QED BY <1>10 DEF more

(* A peer that applies such steps has what they lead to.                   *)
LEMMA StepsAgree ==
    ASSUME NEW B, NEW v, NEW a, NEW b, NEW sent, LeadsIn(sent, a, b, B, v), B \subseteq Nat,
           NEW R, Agree(R, a, B, v)
    PROVE  Agree(ApplyAll(R, sent), b, B, v)
<1> SUFFICES ASSUME NEW r \in SettledIn(b, B, v)
             PROVE  r \in ApplyAll(R, sent) <=> r \in v[b]
  BY DEF Agree
<1>1. r \in Records /\ \A t \in B : t >= b => (r \in v[t] <=> r \in v[b])
  BY DEF SettledIn
<1>2. /\ Added(r, sent) => r \in v[b]
      /\ ~Added(r, sent) /\ KeptFrom(r, 1, sent) =>
           \A t \in B : a <= t /\ t <= b => (r \in v[t] <=> r \in v[b])
      /\ r \in v[b] => Added(r, sent) \/ KeptFrom(r, 1, sent)
      /\ a \in B /\ b \in B /\ a < b
  BY <1>1 DEF LeadsIn
<1>3. r \in ApplyAll(R, sent) <=> Added(r, sent) \/ (r \in R /\ KeptFrom(r, 1, sent))
  BY <1>1 DEF ApplyAll
<1>4. ASSUME ~Added(r, sent), KeptFrom(r, 1, sent) PROVE r \in R <=> r \in v[b]
  <2>1. a \in Nat /\ b \in Nat /\ \A t \in B : t \in Nat
    BY <1>2
  <2>2. \A t \in B : a <= t => (r \in v[t] <=> r \in v[b])
    BY <1>1, <1>2, <1>4, <2>1
  <2>3. r \in v[a] <=> r \in v[b]
    BY <1>2, <2>1, <2>2
  <2>4. \A t \in B : t >= a => (r \in v[t] <=> r \in v[a])
    BY <2>1, <2>2, <2>3
  <2>5. r \in SettledIn(a, B, v)
    BY <1>1, <2>4 DEF SettledIn
  <2>6. QED BY <2>3, <2>5 DEF Agree
<1>5. QED BY <1>2, <1>3, <1>4

-----------------------------------------------------------------------------
(* A commit.                                                               *)

LEMMA BegunFacts ==
    ASSUME TypeOK, ListInv
    PROVE  /\ Begun \subseteq Nat \ {0} /\ Begun \subseteq Serials /\ Spaced(Begun)
           /\ \A t \in Begun : t <= 2 * commits
           /\ latest # 0 => latest \in Begun
           /\ job.stage # "idle" => job.serial \in Begun
           /\ Logged \subseteq Begun
<1>1. commits \in Nat /\ MaxCommits \in Nat /\ commits <= MaxCommits
  BY PeersAssumption DEF TypeOK, bounds
<1>2. \A t \in Begun : \E n \in 1..commits : t = 2 * n
  BY DEF Begun, SerialOf
<1>3. \A n \in 1..commits : 2 * n \in Begun
  BY DEF Begun, SerialOf
<1>4. Begun \subseteq Nat \ {0} /\ \A t \in Begun : t <= 2 * commits
  BY <1>1, <1>2
<1>5. Begun \subseteq Serials
  <2>1. \A n \in 1..commits : n \in 1..MaxCommits
    BY <1>1
  <2>2. QED BY <2>1 DEF Begun, Serials
<1>6. Spaced(Begun)
  <2>1. ASSUME NEW s \in Begun, NEW t \in Begun PROVE s < t => s + 2 <= t
    <3>1. PICK i \in 1..commits : s = 2 * i
      BY <1>2
    <3>2. PICK j \in 1..commits : t = 2 * j
      BY <1>2
    <3>3. QED BY <1>1, <3>1, <3>2
  <2>2. QED BY <1>4, <2>1 DEF Spaced
<1>7. /\ job.stage = "idle" => latest = 2 * commits
      /\ job.stage # "idle" => /\ commits # 0 /\ latest = 2 * commits - 2
                               /\ job.serial = 2 * commits
  BY Counts
<1>8. latest # 0 => latest \in Begun
  <2>1. CASE job.stage = "idle" /\ latest # 0
    <3>1. commits \in 1..commits
      BY <1>1, <1>7, <2>1
    <3>2. QED BY <1>3, <1>7, <2>1, <3>1
  <2>2. CASE job.stage # "idle" /\ latest # 0
    <3>1. commits - 1 \in 1..commits /\ latest = 2 * (commits - 1)
      BY <1>1, <1>7, <2>2
    <3>2. QED BY <1>3, <3>1
  <2>3. QED BY <2>1, <2>2
<1>9. job.stage # "idle" => job.serial \in Begun
  <2>1. commits # 0 => commits \in 1..commits
    BY <1>1
  <2>2. QED BY <1>3, <1>7, <2>1
<1>10. QED BY <1>4, <1>5, <1>6, <1>8, <1>9 DEF Logged

LEMMA StartOf ==
    ASSUME TypeOK, ListInv, NEW C \in Changes, StartJob(C)
    PROVE  LET n == 2 * commits + 2 IN
           /\ job.stage = "idle" /\ latest = 2 * commits /\ commits \in Nat
           /\ C \subseteq Records
           /\ Begun' = Begun \cup {n} /\ version'[n] = (content \ C) \cup (C \ content)
           /\ version'[latest] = version[latest]
           /\ Grown(Begun, version, Begun', version')
           /\ UNCHANGED <<content, latest, all, diffs, xfer, peer>>
           /\ job'.stage = "remove" /\ job'.serial = n /\ job'.rms = C \cap content
           /\ job'.adds = C \ content /\ job'.names = {r[1] : r \in C}
<1> DEFINE n == 2 * commits + 2
           c == (content \ C) \cup (C \ content)
<1>1. commits \in Nat /\ MaxCommits \in Nat /\ latest = 2 * commits
  BY Counts, PeersAssumption DEF StartJob
<1>2. C \subseteq Records
  BY PeersAssumption DEF Records
<1>3. SerialOf(commits + 1) = n
  BY <1>1 DEF SerialOf
<1>4. /\ job.stage = "idle" /\ commits < MaxCommits /\ commits' = commits + 1
      /\ version' = [version EXCEPT ![n] = c]
      /\ UNCHANGED <<content, latest, all, diffs, xfer, peer>>
      /\ job'.stage = "remove" /\ job'.serial = n /\ job'.rms = C \cap content
      /\ job'.adds = C \ content /\ job'.names = {r[1] : r \in C}
  BY <1>3 DEF StartJob, JobUnchanged, redis
<1>5. Begun' = Begun \cup {n}
  <2>1. 1..(commits + 1) = (1..commits) \cup {commits + 1}
    BY <1>1
  <2>2. Begun' = {SerialOf(k) : k \in 1..(commits + 1)}
    BY <1>4 DEF Begun
  <2>3. QED BY <1>3, <2>1, <2>2 DEF Begun
<1>6. /\ Begun \subseteq Serials /\ \A t \in Begun : t \in Nat /\ t <= 2 * commits
      /\ latest # 0 => latest \in Begun
  BY BegunFacts
<1>7. n \in Serials
  <2>1. commits + 1 \in 1..MaxCommits
    BY <1>1, <1>4
  <2>2. QED BY <1>3, <2>1 DEF Serials
<1>8. DOMAIN version = Serials \cup {0}
  BY DEF TypeOK
<1> HIDE DEF c
<1>9. version'[n] = c /\ \A t \in Begun \cup {0} : version'[t] = version[t]
  <2>1. \A t \in Begun \cup {0} : t # n /\ t \in Serials \cup {0}
    BY <1>1, <1>6
  <2>2. QED BY <1>4, <1>7, <1>8, <2>1
<1>10. Grown(Begun, version, Begun', version')
  <2>1. n \in Nat /\ \A s \in Begun : s < n
    BY <1>1, <1>6
  <2>2. QED BY <1>5, <1>6, <1>9, <2>1 DEF Grown
<1>11. version'[latest] = version[latest]
  BY <1>6, <1>9
<1>12. QED BY <1>1, <1>2, <1>4, <1>5, <1>9, <1>10, <1>11 DEF c

(* The other steps of the commit.                                          *)
LEMMA JobSteps ==
    ASSUME TypeOK, JobStep
    PROVE  /\ UNCHANGED <<version, commits, xfer, peer, gc>> /\ UNCHANGED Begun
           /\ \/ /\ job.stage = "remove" /\ UNCHANGED <<content, latest>>
                 /\ diffs' = diffs \cup Entries("remove", job.rms) /\ job'.stage = "add"
                 /\ job'.serial = job.serial /\ job'.rms = job.rms
                 /\ job'.adds = job.adds /\ job'.names = job.names
              \/ /\ job.stage = "add" /\ UNCHANGED <<content, latest>>
                 /\ diffs' = diffs \cup Entries("add", job.adds) /\ job'.stage = "names"
                 /\ job'.serial = job.serial /\ job'.rms = job.rms
                 /\ job'.adds = job.adds /\ job'.names = job.names
              \/ \E n \in job.names :
                   /\ job.stage = "names" /\ UNCHANGED <<latest, diffs>>
                   /\ content' = (content \ Under(job.rms, n)) \cup Under(job.adds, n)
                   /\ job'.stage = "names" /\ job'.serial = job.serial
                   /\ job'.rms = job.rms /\ job'.adds = job.adds
                   /\ job'.names = job.names \ {n}
              \/ /\ job.stage = "names" /\ job.names = {} /\ job'.stage = "latest"
                 /\ UNCHANGED <<content, latest, diffs>>
                 /\ job'.serial = job.serial /\ job'.rms = job.rms
                 /\ job'.adds = job.adds /\ job'.names = job.names
              \/ /\ job.stage = "latest" /\ UNCHANGED <<content, diffs>>
                 /\ latest' = job.serial /\ job'.stage = "idle" /\ job'.serial = 0
<1>1. UNCHANGED <<version, commits, xfer, peer, gc>> /\ UNCHANGED Begun
  BY JobFrame DEF bounds, Begun
<1>2. CASE PushRemoves
  BY <1>1, <1>2, JobStages DEF PushRemoves
<1>3. CASE PushAdds
  BY <1>1, <1>3, JobStages DEF PushAdds
<1>4. ASSUME NEW n \in Names, CommitName(n)
      PROVE  /\ n \in job.names /\ job.stage = "names" /\ UNCHANGED <<latest, diffs>>
             /\ content' = (content \ Under(job.rms, n)) \cup Under(job.adds, n)
             /\ job'.stage = "names" /\ job'.serial = job.serial
             /\ job'.rms = job.rms /\ job'.adds = job.adds
             /\ job'.names = job.names \ {n}
  <2>1. job \in Jobs
    BY Fields
  <2>2. job' = [job EXCEPT !.names = job.names \ {n}]
    BY <1>4 DEF CommitName
  <2>3. /\ job'.stage = job.stage /\ job'.serial = job.serial /\ job'.rms = job.rms
        /\ job'.adds = job.adds /\ job'.names = job.names \ {n}
    BY <2>1, <2>2 DEF Jobs
  <2>4. QED BY <1>4, <2>3 DEF CommitName
<1>5. CASE PushAll
  BY <1>1, <1>5, JobStages DEF PushAll
<1>6. CASE SetLatest
  BY <1>1, <1>6 DEF SetLatest, NoJob
<1>7. CASE \E n \in Names : CommitName(n)
  <2>1. PICK n \in Names : CommitName(n)
    BY <1>7
  <2>2. QED BY <1>1, <1>4, <2>1
<1>8. QED BY <1>2, <1>3, <1>5, <1>6, <1>7 DEF JobStep

LEMMA SameCommit ==
    ASSUME CommitInv, UNCHANGED <<content, latest, job, version>>
    PROVE  CommitInv'
  BY DEF CommitInv

LEMMA CommitStart ==
    ASSUME TypeOK, ListInv, CommitInv, NEW C \in Changes, StartJob(C)
    PROVE  CommitInv'
<1> DEFINE n == 2 * commits + 2
<1>1. /\ job.stage = "idle" /\ C \subseteq Records /\ UNCHANGED <<content, latest>>
      /\ version'[n] = (content \ C) \cup (C \ content)
      /\ version'[latest] = version[latest]
      /\ job'.stage = "remove" /\ job'.serial = n /\ job'.rms = C \cap content
      /\ job'.adds = C \ content /\ job'.names = {r[1] : r \in C}
  BY StartOf
<1> HIDE DEF n
<1>2. content = version[latest]
  BY <1>1 DEF CommitInv
<1>3. /\ job'.rms = version'[latest'] \ version'[job'.serial]
      /\ job'.adds = version'[job'.serial] \ version'[latest']
  BY <1>1, <1>2
<1>4. \A r \in Records :
         r \in content' <=> IF r[1] \in job'.names THEN r \in version'[latest']
                                                   ELSE r \in version'[job'.serial]
  BY <1>1, <1>2
<1>5. QED BY <1>1, <1>3, <1>4 DEF CommitInv

LEMMA CommitStep ==
    ASSUME TypeOK, ListInv, CommitInv, JobStep
    PROVE  CommitInv'
<1>1. job.stage # "idle"
  BY DEF JobStep, PushRemoves, PushAdds, CommitName, PushAll, SetLatest
<1>2. /\ job.rms = version[latest] \ version[job.serial]
      /\ job.adds = version[job.serial] \ version[latest]
      /\ \A r \in Records :
           r \in content <=> IF r[1] \in job.names THEN r \in version[latest]
                                                   ELSE r \in version[job.serial]
      /\ job.stage = "latest" => job.names = {}
  BY <1>1 DEF CommitInv
<1>3. UNCHANGED version
  BY JobSteps
<1>4. ASSUME UNCHANGED <<content, latest>>, job'.stage # "idle",
             job'.stage = "latest" => job.names = {},
             job'.serial = job.serial, job'.rms = job.rms, job'.adds = job.adds,
             job'.names = job.names
      PROVE  CommitInv'
  BY <1>2, <1>3, <1>4 DEF CommitInv
<1>5. ASSUME NEW n \in job.names, UNCHANGED latest, job'.stage = "names",
             content' = (content \ Under(job.rms, n)) \cup Under(job.adds, n),
             job'.serial = job.serial, job'.rms = job.rms, job'.adds = job.adds,
             job'.names = job.names \ {n}
      PROVE  CommitInv'
  <2>1. \A r : r \in content' <=>
                 \/ r \in content /\ ~(r \in job.rms /\ r[1] = n)
                 \/ r \in job.adds /\ r[1] = n
    BY <1>5 DEF Under
  <2>2. ASSUME NEW r \in Records
        PROVE  r \in content' <=> IF r[1] \in job'.names THEN r \in version[latest]
                                                         ELSE r \in version[job.serial]
    BY <1>2, <1>5, <2>1
  <2>3. QED BY <1>2, <1>3, <1>5, <2>2 DEF CommitInv
<1>6. CASE job.stage = "latest" /\ UNCHANGED content /\ latest' = job.serial /\ job'.stage = "idle"
  <2>1. content \subseteq Records /\ version[job.serial] \subseteq Records
    <3>1. job.serial \in Serials
      BY <1>1, BegunFacts
    <3>2. QED BY <3>1 DEF TypeOK
  <2>2. content = version[job.serial]
    BY <1>2, <1>6, <2>1
  <2>3. QED BY <1>3, <1>6, <2>2 DEF CommitInv
<1>7. QED BY <1>4, <1>5, <1>6, JobSteps

(* The lists of a pair of serials, whole or gone.                          *)
DiffIn(op, a, b, v) == IF op = "remove" THEN v[a] \ v[b] ELSE v[b] \ v[a]

WholeIn(op, a, b, v, D) == \A r \in DiffIn(op, a, b, v) : [from |-> a, to |-> b, op |-> op,
                                                           rec |-> r] \in D

DiffsIn(D, s, B, v) ==
    \A e \in D : /\ e.from \in B /\ e.to \in B /\ e.to = e.from + 2
                 /\ e.rec \in DiffIn(e.op, e.from, e.to, v)
                 /\ e.to # s => \A op \in {"remove", "add"} : WholeIn(op, e.from, e.to, v, D)

PushedSoFar(D, l, j, v) ==
    /\ l # 0 /\ j.stage \in {"add", "names", "latest"} => WholeIn("remove", l, j.serial, v, D)
    /\ l # 0 /\ j.stage \in {"names", "latest"} => WholeIn("add", l, j.serial, v, D)

LEMMA DiffsEach ==
    DiffsInv <=> DiffsIn(diffs, job.serial, Begun, version)
                   /\ PushedSoFar(diffs, latest, job, version)
  BY DEF DiffsInv, Whole, Differ, DiffsIn, PushedSoFar, WholeIn, DiffIn

LEMMA DiffsEachNext ==
    DiffsInv' <=> DiffsIn(diffs', job'.serial, Begun', version')
                    /\ PushedSoFar(diffs', latest', job', version')
  BY DEF DiffsInv, Whole, Differ, DiffsIn, PushedSoFar, WholeIn, DiffIn

LEMMA DiffsStart ==
    ASSUME TypeOK, ListInv, DiffsInv, NEW C \in Changes, StartJob(C)
    PROVE  DiffsInv'
<1>1. /\ Grown(Begun, version, Begun', version') /\ job.stage = "idle"
      /\ job'.stage = "remove" /\ UNCHANGED diffs
  BY StartOf
<1>2. job.serial = 0
  BY <1>1 DEF ListInv, NoJob
<1>3. DiffsIn(diffs, 0, Begun, version)
  BY <1>2, DiffsEach
<1>4. ASSUME NEW e \in diffs
      PROVE  /\ e.from \in Begun' /\ e.to \in Begun' /\ e.to = e.from + 2
             /\ e.rec \in DiffIn(e.op, e.from, e.to, version')
             /\ \A op \in {"remove", "add"} : WholeIn(op, e.from, e.to, version', diffs)
  <2>1. /\ e.from \in Begun /\ e.to \in Begun /\ e.to = e.from + 2
        /\ e.rec \in DiffIn(e.op, e.from, e.to, version)
        /\ e.to # 0 => \A op \in {"remove", "add"} : WholeIn(op, e.from, e.to, version, diffs)
    BY <1>3 DEF DiffsIn
  <2>2. e.to # 0
    BY <2>1, BegunFacts
  <2>3. /\ e.from \in Begun' /\ e.to \in Begun'
        /\ version'[e.from] = version[e.from] /\ version'[e.to] = version[e.to]
    BY <1>1, <2>1 DEF Grown
  <2>4. \A op : DiffIn(op, e.from, e.to, version') = DiffIn(op, e.from, e.to, version)
    BY <2>3 DEF DiffIn
  <2>5. QED BY <2>1, <2>2, <2>3, <2>4 DEF WholeIn
<1>5. DiffsIn(diffs', job'.serial, Begun', version')
  BY <1>1, <1>4 DEF DiffsIn
<1>6. PushedSoFar(diffs', latest', job', version')
  BY <1>1 DEF PushedSoFar
<1>7. QED BY <1>5, <1>6, DiffsEachNext

LEMMA EntriesOf ==
    ASSUME NEW op, NEW R, latest # 0
    PROVE  /\ \A e \in Entries(op, R) : /\ e.from = latest /\ e.to = job.serial
                                        /\ e.op = op /\ e.rec \in R
           /\ \A r \in R : [from |-> latest, to |-> job.serial, op |-> op, rec |-> r]
                             \in Entries(op, R)
  BY DEF Entries

LEMMA MoreEntries ==
    ASSUME TypeOK, ListInv, DiffsInv, job.stage # "idle", NEW op \in {"remove", "add"},
           NEW R, R = DiffIn(op, latest, job.serial, version),
           diffs' = diffs \cup Entries(op, R)
    PROVE  /\ DiffsIn(diffs', job.serial, Begun, version)
           /\ latest # 0 => WholeIn(op, latest, job.serial, version, diffs')
<1>0. DiffsIn(diffs, job.serial, Begun, version)
  BY DiffsEach
<1>1. CASE latest = 0
  BY <1>0, <1>1 DEF Entries, DiffsIn, WholeIn
<1>2. CASE latest # 0
  <2>1. latest \in Begun /\ job.serial \in Begun /\ job.serial = latest + 2
    BY <1>2, BegunFacts, Counts
  <2>2. ASSUME NEW e \in diffs'
        PROVE  /\ e.from \in Begun /\ e.to \in Begun /\ e.to = e.from + 2
               /\ e.rec \in DiffIn(e.op, e.from, e.to, version)
               /\ e.to # job.serial => \A o \in {"remove", "add"} :
                                          WholeIn(o, e.from, e.to, version, diffs')
    <3>1. CASE e \in diffs
      BY <1>0, <3>1 DEF DiffsIn, WholeIn
    <3>2. CASE e \in Entries(op, R)
      BY <1>2, <2>1, <3>2, EntriesOf
    <3>3. QED BY <3>1, <3>2
  <2>3. WholeIn(op, latest, job.serial, version, diffs')
    BY <1>2, EntriesOf DEF WholeIn
  <2>4. QED BY <2>2, <2>3 DEF DiffsIn
<1>3. QED BY <1>1, <1>2

LEMMA DiffsStep ==
    ASSUME TypeOK, ListInv, CommitInv, DiffsInv, JobStep
    PROVE  DiffsInv'
<1>0. /\ DiffsIn(diffs, job.serial, Begun, version)
      /\ PushedSoFar(diffs, latest, job, version)
  BY DiffsEach
<1>1. UNCHANGED version /\ UNCHANGED Begun
  BY JobSteps
<1>2. job.stage # "idle"
  BY DEF JobStep, PushRemoves, PushAdds, CommitName, PushAll, SetLatest
<1>3. /\ job.rms = DiffIn("remove", latest, job.serial, version)
      /\ job.adds = DiffIn("add", latest, job.serial, version)
  BY <1>2 DEF CommitInv, DiffIn
<1>4. CASE /\ job.stage = "remove" /\ UNCHANGED latest
           /\ diffs' = diffs \cup Entries("remove", job.rms) /\ job'.stage = "add"
           /\ job'.serial = job.serial
  <2>1. /\ DiffsIn(diffs', job.serial, Begun, version)
        /\ latest # 0 => WholeIn("remove", latest, job.serial, version, diffs')
    BY <1>2, <1>3, <1>4, MoreEntries
  <2>2. PushedSoFar(diffs', latest', job', version')
    BY <1>1, <1>4, <2>1 DEF PushedSoFar
  <2>3. QED BY <1>1, <1>4, <2>1, <2>2, DiffsEachNext
<1>5. CASE /\ job.stage = "add" /\ UNCHANGED latest
           /\ diffs' = diffs \cup Entries("add", job.adds) /\ job'.stage = "names"
           /\ job'.serial = job.serial
  <2>1. /\ DiffsIn(diffs', job.serial, Begun, version)
        /\ latest # 0 => WholeIn("add", latest, job.serial, version, diffs')
    BY <1>2, <1>3, <1>5, MoreEntries
  <2>2. latest # 0 => WholeIn("remove", latest, job.serial, version, diffs')
    BY <1>0, <1>5 DEF PushedSoFar, WholeIn
  <2>3. PushedSoFar(diffs', latest', job', version')
    BY <1>1, <1>5, <2>1, <2>2 DEF PushedSoFar
  <2>4. QED BY <1>1, <1>5, <2>1, <2>3, DiffsEachNext
<1>6. CASE /\ job.stage = "names" /\ UNCHANGED <<latest, diffs>>
           /\ job'.stage \in {"names", "latest"} /\ job'.serial = job.serial
  <2>1. PushedSoFar(diffs', latest', job', version')
    BY <1>0, <1>1, <1>6 DEF PushedSoFar
  <2>2. QED BY <1>0, <1>1, <1>6, <2>1, DiffsEachNext
<1>7. CASE /\ job.stage = "latest" /\ UNCHANGED diffs /\ latest' = job.serial
           /\ job'.stage = "idle" /\ job'.serial = 0
  <2>1. ASSUME NEW e \in diffs, NEW op \in {"remove", "add"}
        PROVE  WholeIn(op, e.from, e.to, version, diffs)
    <3>1. CASE e.to # job.serial
      BY <1>0, <3>1 DEF DiffsIn
    <3>2. CASE e.to = job.serial
      <4>1. e.from \in Nat /\ e.from # 0 /\ e.to = e.from + 2
        BY <1>0, BegunFacts DEF DiffsIn
      <4>2. job.serial = latest + 2 /\ latest \in Nat
        BY <1>2, Counts
      <4> DEFINE a == e.from
                 b == e.to
      <4>3. a \in Nat /\ a # 0 /\ b = a + 2 /\ b = latest + 2
        BY <3>2, <4>1, <4>2
      <4> HIDE DEF a, b
      <4>4. a = latest /\ latest # 0
        BY <4>2, <4>3
      <4>5. QED BY <1>0, <1>7, <3>2, <4>4 DEF PushedSoFar, a
    <3>3. QED BY <3>1, <3>2
  <2>2. DiffsIn(diffs', job'.serial, Begun', version')
    BY <1>0, <1>1, <1>7, <2>1 DEF DiffsIn
  <2>3. PushedSoFar(diffs', latest', job', version')
    BY <1>7 DEF PushedSoFar
  <2>4. QED BY <2>2, <2>3, DiffsEachNext
<1>8. QED BY <1>4, <1>5, <1>6, <1>7, JobSteps

LEMMA SameDiffs ==
    ASSUME DiffsInv, UNCHANGED <<diffs, latest, job, version, commits>>
    PROVE  DiffsInv'
  BY DEF DiffsInv, Whole, Differ, Begun

(* Of a serial that is collected both lists go, and none that is pushed to.*)
LEMMA DiffsCollected ==
    ASSUME TypeOK, ListInv, GCInv, DiffsInv, GCStep
    PROVE  DiffsInv'
<1>1. UNCHANGED <<latest, job, version, commits>>
  BY GCCases DEF bounds
<1>2. CASE UNCHANGED diffs
  BY <1>1, <1>2, SameDiffs
<1>3. ASSUME NEW s \in gc.drop, diffs' = {e \in diffs : s \notin {e.from, e.to}}
      PROVE  DiffsInv'
  <2>0. /\ DiffsIn(diffs, job.serial, Begun, version)
        /\ PushedSoFar(diffs, latest, job, version)
    BY DiffsEach
  <2>1. s < latest /\ s \in Nat /\ latest \in Nat
    <3>1. s \in Nat /\ gc.latest \in Nat /\ latest \in Nat
      BY GCFields, Fields
    <3>2. QED BY <3>1 DEF GCInv
  <2>2. job.stage # "idle" => s # job.serial
    BY <2>1, Counts
  <2>3. ASSUME NEW op, NEW a, NEW b, s # a, s # b, WholeIn(op, a, b, version, diffs)
        PROVE  WholeIn(op, a, b, version, diffs')
    BY <1>3, <2>3 DEF WholeIn
  <2>4. DiffsIn(diffs', job.serial, Begun, version)
    BY <1>3, <2>0, <2>3 DEF DiffsIn
  <2>5. PushedSoFar(diffs', latest, job, version)
    BY <2>0, <2>1, <2>2, <2>3 DEF PushedSoFar
  <2>6. UNCHANGED Begun
    BY <1>1 DEF Begun
  <2>7. QED BY <1>1, <2>4, <2>5, <2>6, DiffsEachNext
<1>4. QED BY <1>2, <1>3, GCCases

(* What a transfer reads of a pair of serials, unless the lists are gone.  *)
LEMMA WholeRead ==
    ASSUME TypeOK, ListInv, DiffsInv, NEW pair, pair[2] \in Logged, ~Gone(pair),
           NEW op \in {"remove", "add"}
    PROVE  /\ pair[2] = pair[1] + 2
           /\ DiffList(pair, op) = DiffIn(op, pair[1], pair[2], version)
<1>0. /\ DiffsIn(diffs, job.serial, Begun, version)
      /\ PushedSoFar(diffs, latest, job, version)
  BY DiffsEach
<1>1. PICK e \in diffs : e.from = pair[1] /\ e.to = pair[2]
  BY DEF Gone
<1>2. /\ e.from \in Begun /\ e.to = e.from + 2
      /\ e.to # job.serial => WholeIn(op, e.from, e.to, version, diffs)
  BY <1>0 DEF DiffsIn
<1>3. WholeIn(op, pair[1], pair[2], version, diffs)
  <2>1. CASE e.to # job.serial
    BY <1>1, <1>2, <2>1
  <2>2. CASE e.to = job.serial
    <3>1. e.from \in Nat /\ e.from # 0 /\ latest \in Nat
      BY <1>2, BegunFacts, Fields
    <3>2. job.stage # "idle"
      BY <1>2, <2>2, <3>1 DEF ListInv, NoJob
    <3>3. job.serial = latest + 2
      BY <3>2, Counts
    <3>4. e.from = latest /\ latest # 0 /\ ~(e.to <= latest)
      BY <1>2, <2>2, <3>1, <3>3
    <3>5. job.stage = "latest"
      BY <1>1, <3>4 DEF Logged
    <3>6. QED BY <1>0, <1>1, <2>2, <3>4, <3>5 DEF PushedSoFar
  <2>3. QED BY <2>1, <2>2
<1>4. DiffIn(op, pair[1], pair[2], version) \subseteq DiffList(pair, op)
  <2>1. ASSUME NEW r \in DiffIn(op, pair[1], pair[2], version)
        PROVE  r \in DiffList(pair, op)
    <3> DEFINE f == [from |-> pair[1], to |-> pair[2], op |-> op, rec |-> r]
    <3>1. f \in diffs
      BY <1>3, <2>1 DEF WholeIn
    <3>2. f.from = pair[1] /\ f.to = pair[2] /\ f.op = op /\ f.rec = r
      OBVIOUS
    <3> HIDE DEF f
    <3>3. QED BY <3>1, <3>2 DEF DiffList
  <2>2. QED BY <2>1
<1>5. DiffList(pair, op) \subseteq DiffIn(op, pair[1], pair[2], version)
  BY <1>0 DEF DiffList, DiffsIn
<1>6. QED BY <1>1, <1>2, <1>4, <1>5

-----------------------------------------------------------------------------
(* What is read of a zone, and of its changes.                             *)

LEMMA ContentSettled ==
    ASSUME TypeOK, ListInv, CommitInv, NEW s \in Begun, s <= latest,
           NEW r \in SettledIn(s, Begun, version)
    PROVE  r \in content <=> r \in version[s]
<1>1. /\ s \in Nat /\ s # 0 /\ latest \in Nat /\ job.serial \in Nat
      /\ job.stage # "idle" => job.serial = latest + 2
  BY BegunFacts, Counts
<1>2. latest \in Begun /\ (job.stage # "idle" => job.serial \in Begun)
  BY <1>1, BegunFacts
<1>3. r \in Records /\ \A t \in Begun : t >= s => (r \in version[t] <=> r \in version[s])
  BY DEF SettledIn
<1>4. r \in version[latest] <=> r \in version[s]
  BY <1>1, <1>2, <1>3
<1>5. job.stage # "idle" => (r \in version[job.serial] <=> r \in version[s])
  BY <1>1, <1>2, <1>3
<1>6. QED BY <1>3, <1>4, <1>5 DEF CommitInv

LEMMA SoFarNamed ==
    ASSUME TypeOK, ListInv, CommitInv, NEW x, NEW y, SoFarIn(x, latest, Begun, version),
           y.serial = x.serial, NEW n \in x.left,
           y.recs = x.recs \cup Under(content, n), y.left = x.left \ {n}
    PROVE  SoFarIn(y, latest, Begun, version)
<1>1. /\ x.serial \in Begun /\ x.serial <= latest
      /\ \A r \in x.recs : r[1] \notin x.left
      /\ \A r \in SettledIn(x.serial, Begun, version) : r[1] \notin x.left =>
            (r \in x.recs <=> r \in version[x.serial])
  BY DEF SoFarIn
<1>2. \A r : r \in y.recs <=> r \in x.recs \/ (r \in content /\ r[1] = n)
  BY DEF Under
<1>3. \A r \in y.recs : r[1] \notin y.left
  BY <1>1, <1>2
<1>4. \A r \in SettledIn(x.serial, Begun, version) : r \in content <=> r \in version[x.serial]
  BY <1>1, ContentSettled
<1>5. ASSUME NEW r \in SettledIn(x.serial, Begun, version), r[1] \notin y.left
      PROVE  r \in y.recs <=> r \in version[x.serial]
  <2>1. CASE r[1] = n
    BY <1>1, <1>2, <1>4, <2>1
  <2>2. CASE r[1] # n
    BY <1>1, <1>2, <1>5, <2>2
  <2>3. QED BY <2>1, <2>2
<1>6. QED BY <1>1, <1>3, <1>5 DEF SoFarIn

LEMMA SoFarSame ==
    ASSUME NEW x, NEW y, NEW l, NEW B, NEW v, SoFarIn(x, l, B, v), y.serial = x.serial,
           y.recs = x.recs, y.left = x.left
    PROVE  SoFarIn(y, l, B, v)
  BY DEF SoFarIn

(* The step that is sent goes on from the last one.                        *)
LEMMA LeadingSent ==
    ASSUME NEW B, Spaced(B), NEW v, NEW sent \in Seq(Steps), NEW e \in Steps,
           e.from \in B, e.to \in B, e.to = e.from + 2,
           e.remove = v[e.from] \ v[e.to], e.add = v[e.to] \ v[e.from],
           sent # <<>> => LeadingIn(sent, B, v) /\ sent[Len(sent)].to = e.from
    PROVE  LeadingIn(Append(sent, e), B, v)
<1> DEFINE more == Append(sent, e)
<1>1. CASE sent = <<>>
  <2>1. more = <<e>> /\ more[1] = e /\ Len(more) = 1
    BY <1>1
  <2>2. e = [from |-> e.from, to |-> e.to, remove |-> e.remove, add |-> e.add]
    BY DEF Steps
  <2> DEFINE a == e.from
  <2>3. /\ a \in B /\ a + 2 \in B
        /\ e = [from |-> a, to |-> a + 2, remove |-> v[a] \ v[a + 2], add |-> v[a + 2] \ v[a]]
    BY <2>2
  <2> HIDE DEF a
  <2>4. LeadsIn(<<e>>, a, a + 2, B, v)
    BY <2>3, LeadingFirst
  <2>5. LeadsIn(more, e.from, e.to, B, v)
    BY <2>1, <2>4 DEF a
  <2>6. QED BY <2>1, <2>5 DEF LeadingIn
<1>2. CASE sent # <<>>
  <2> DEFINE n == Len(sent)
             a == sent[1].from
             b == e.from
  <2>1. /\ n \in Nat /\ n # 0 /\ Len(more) = n + 1 /\ more[n + 1] = e /\ more[1] = sent[1]
    BY <1>2
  <2>2. LeadsIn(sent, a, b, B, v)
    BY <1>2 DEF LeadingIn
  <2>3. b \in B /\ b + 2 \in B /\ e.remove = v[b] \ v[b + 2] /\ e.add = v[b + 2] \ v[b]
    OBVIOUS
  <2> HIDE DEF n, a, b
  <2>4. LeadsIn(more, a, b + 2, B, v)
    BY <2>2, <2>3, LeadingNext
  <2>5. LeadsIn(more, more[1].from, more[Len(more)].to, B, v)
    BY <2>1, <2>4 DEF a, b
  <2>6. QED BY <2>5 DEF LeadingIn
<1>3. QED BY <1>1, <1>2

LEMMA ReadXfer ==
    ASSUME TypeOK, XferInv, ListInv, CommitInv, DiffsInv, NEW p \in Peers,
           ReadIn(xfer[p], latest, Logged, Begun, version),
           xfer'[p] \in Xfers, Asked(p) \/ GoesOn(p)
    PROVE  ReadIn(xfer'[p], latest, Logged, Begun, version)
<1> DEFINE x == xfer[p]
           y == xfer'[p]
<1>0. x \in Xfers /\ y \in Xfers
  BY Fields
<1>1. CASE Asked(p)
  <2>1. /\ y.todo = <<>> /\ y.sent = <<>> /\ y.stage \in {"list", "scan"}
        /\ y.left = Names /\ y.recs = {} /\ (~y.gap => y.serial = latest /\ latest # 0)
    BY <1>1 DEF Asked
  <2>2. ~y.gap => SoFarIn(y, latest, Begun, version)
    <3>1. SUFFICES ASSUME ~y.gap PROVE SoFarIn(y, latest, Begun, version)
      OBVIOUS
    <3>2. latest \in Begun /\ latest \in Nat
      BY <2>1, <3>1, BegunFacts, Fields
    <3>3. \A r \in SettledIn(y.serial, Begun, version) : r[1] \in y.left
      BY <2>1 DEF SettledIn, Records
    <3>4. QED BY <2>1, <3>1, <3>2, <3>3 DEF SoFarIn
  <2>3. /\ \A i \in 1..Len(y.todo) : {y.todo[i][1], y.todo[i][2]} \subseteq Logged
        /\ \A i \in 1..(Len(y.todo) - 1) : y.todo[i][2] = y.todo[i + 1][1]
    <3>1. Len(y.todo) = 0 /\ 1..0 = {} /\ 1..(0 - 1) = {}
      BY <2>1
    <3>2. QED BY <3>1
  <2>4. QED BY <2>1, <2>2, <2>3 DEF ReadIn
<1>2. ASSUME GoesOn(p), x.stage # "none" PROVE ReadIn(y, latest, Logged, Begun, version)
  <2>0. /\ \A i \in 1..Len(x.todo) : {x.todo[i][1], x.todo[i][2]} \subseteq Logged
        /\ \A i \in 1..(Len(x.todo) - 1) : x.todo[i][2] = x.todo[i + 1][1]
        /\ x.sent # <<>> /\ x.todo # <<>> => Head(x.todo)[1] = x.sent[Len(x.sent)].to
        /\ x.stage \in {"list", "scan"} => x.sent = <<>>
        /\ ~x.gap =>
             /\ x.stage \in {"list", "scan"} => SoFarIn(x, latest, Begun, version)
             /\ x.stage = "sent" /\ x.sent = <<>> =>
                  SoFarIn(x, latest, Begun, version) /\ x.left = {}
             /\ x.stage = "adds" => /\ Head(x.todo)[2] = Head(x.todo)[1] + 2
                                    /\ x.recs = version[Head(x.todo)[1]]
                                                  \ version[Head(x.todo)[2]]
             /\ x.sent # <<>> => LeadingIn(x.sent, Begun, version)
    BY <1>2 DEF ReadIn
  <2>a. y.base = x.base /\ y.serial = x.serial
    BY <1>2 DEF GoesOn, SameAim
  <2>b. x.stage \in {"removes", "adds"} =>
          /\ Head(x.todo)[1] \in Logged /\ Head(x.todo)[2] \in Logged
          /\ x.todo \in Seq(Nat \X Nat) /\ Len(x.todo) # 0 /\ Head(x.todo) = x.todo[1]
    <3>1. SUFFICES ASSUME x.stage \in {"removes", "adds"}
                   PROVE  /\ Head(x.todo)[1] \in Logged /\ Head(x.todo)[2] \in Logged
                          /\ x.todo \in Seq(Nat \X Nat) /\ Len(x.todo) # 0
                          /\ Head(x.todo) = x.todo[1]
      OBVIOUS
    <3>2. x.todo \in Seq(Nat \X Nat) /\ x.todo # <<>>
      BY <1>0, <3>1 DEF XferInv, Xfers
    <3>3. Len(x.todo) # 0 /\ 1 \in 1..Len(x.todo) /\ Head(x.todo) = x.todo[1]
      BY <3>2
    <3>4. QED BY <2>0, <3>2, <3>3
  <2>1. CASE Listed(p)
    <3> DEFINE c == Chain(all, x.base)
    <3>1. /\ x.stage = "list" /\ y.todo = c
          /\ y.stage = IF y.todo = <<>> THEN "scan" ELSE "removes"
          /\ y.sent = x.sent /\ y.left = x.left /\ y.recs = x.recs /\ y.gap = x.gap
      BY <2>1 DEF Listed
    <3>2. all \in Seq(Nat) /\ Increasing(all) /\ x.base \in Nat
      BY <1>0, Fields, ListIncreasing DEF Xfers
    <3>3. /\ \A i \in 1..Len(c) : \A k \in {1, 2} : \E j \in 1..Len(all) : c[i][k] = all[j]
          /\ \A i \in 1..(Len(c) - 1) : c[i][2] = c[i + 1][1]
      BY <3>2, ChainOf
    <3>4. \A i \in 1..Len(c) : {c[i][1], c[i][2]} \subseteq Logged
      BY <3>3 DEF ListInv
    <3> HIDE DEF c
    <3>5. x.sent = <<>> /\ (~x.gap => SoFarIn(x, latest, Begun, version))
      BY <2>0, <3>1
    <3>6. ~y.gap => SoFarIn(y, latest, Begun, version)
      BY <2>a, <3>1, <3>5, SoFarSame
    <3>7. y.sent = <<>> /\ y.stage \in {"scan", "removes"}
      BY <3>1, <3>5
    <3>8. QED BY <3>1, <3>3, <3>4, <3>6, <3>7 DEF ReadIn
  <2>2. CASE Removed(p)
    <3>1. /\ x.stage = "removes" /\ y.stage = "adds"
          /\ y.todo = x.todo /\ y.sent = x.sent
          /\ ~y.gap => /\ ~x.gap /\ ~Gone(Head(x.todo))
                       /\ y.recs = DiffList(Head(x.todo), "remove")
      BY <2>2 DEF Removed
    <3>2. ~y.gap => /\ Head(x.todo)[2] = Head(x.todo)[1] + 2
                    /\ y.recs = version[Head(x.todo)[1]] \ version[Head(x.todo)[2]]
      BY <2>b, <3>1, WholeRead DEF DiffIn
    <3>3. QED BY <2>0, <3>1, <3>2 DEF ReadIn
  <2>3. CASE StepSent(p)
    <3> DEFINE pair == Head(x.todo)
    <3>1. PICK A \in SUBSET Records :
            LET s == [from |-> pair[1], to |-> pair[2], remove |-> x.recs, add |-> A]
            IN  /\ x.stage = "adds" /\ y.todo = Tail(x.todo)
                /\ y.stage = IF y.todo = <<>> THEN "sent" ELSE "removes"
                /\ s \in Steps /\ y.sent = Append(x.sent, s)
                /\ ~y.gap => ~x.gap /\ ~Gone(pair) /\ A = DiffList(pair, "add")
      BY <2>3 DEF StepSent
    <3> DEFINE e == [from |-> pair[1], to |-> pair[2], remove |-> x.recs, add |-> A]
    <3>2. e.from = pair[1] /\ e.to = pair[2] /\ e.remove = x.recs /\ e.add = A
      OBVIOUS
    <3>3. /\ x.stage = "adds" /\ y.todo = Tail(x.todo) /\ e \in Steps
          /\ y.stage \in {"sent", "removes"} /\ y.sent = Append(x.sent, e)
          /\ ~y.gap => ~x.gap /\ ~Gone(pair) /\ A = DiffList(pair, "add")
      BY <3>1
    <3> HIDE DEF e
    <3>4. /\ pair[1] \in Logged /\ pair[2] \in Logged
          /\ x.todo \in Seq(Nat \X Nat) /\ Len(x.todo) # 0 /\ pair = x.todo[1]
      BY <2>b, <3>3
    <3> HIDE DEF pair
    <3>5. x.sent \in Seq(Steps)
      BY <1>0 DEF Xfers
    <3>6. ~y.gap => LeadingIn(y.sent, Begun, version)
      <4>1. SUFFICES ASSUME ~y.gap PROVE LeadingIn(y.sent, Begun, version)
        OBVIOUS
      <4>2. /\ pair[2] = pair[1] + 2 /\ x.recs = version[pair[1]] \ version[pair[2]]
            /\ x.sent # <<>> => LeadingIn(x.sent, Begun, version)
                                  /\ pair[1] = x.sent[Len(x.sent)].to
        <5>1. x.todo # <<>>
          BY <3>4
        <5>2. QED BY <2>0, <3>3, <4>1, <5>1 DEF pair
      <4>3. A = version[pair[2]] \ version[pair[1]]
        BY <3>3, <3>4, <4>1, WholeRead DEF DiffIn
      <4>4. pair[1] \in Begun /\ pair[2] \in Begun /\ Spaced(Begun)
        BY <3>4, BegunFacts
      <4>5. LeadingIn(Append(x.sent, e), Begun, version)
        BY <3>2, <3>3, <3>5, <4>2, <4>3, <4>4, LeadingSent
      <4>6. QED BY <3>3, <4>5
    <3>7. y.sent # <<>> /\ y.sent[Len(y.sent)] = e
      BY <3>3, <3>5
    <3> DEFINE t == x.todo
    <3>8. /\ Len(Tail(t)) = Len(t) - 1 /\ Len(t) \in Nat
          /\ \A i \in 1..Len(Tail(t)) : i + 1 \in 1..Len(t) /\ Tail(t)[i] = t[i + 1]
      <4>1. t \in Seq(Nat \X Nat) /\ t # <<>>
        BY <3>4
      <4> HIDE DEF t
      <4>2. QED BY <4>1
    <3>9. /\ \A i \in 1..Len(t) : {t[i][1], t[i][2]} \subseteq Logged
          /\ \A i \in 1..(Len(t) - 1) : t[i][2] = t[i + 1][1]
      BY <2>0
    <3>a. y.todo = Tail(t) /\ Tail(t) \in Seq(Nat \X Nat)
      BY <3>3, <3>4
    <3> HIDE DEF t
    <3>b. \A i \in 1..Len(Tail(t)) : {Tail(t)[i][1], Tail(t)[i][2]} \subseteq Logged
      BY <3>8, <3>9
    <3>c. ASSUME NEW i \in 1..(Len(Tail(t)) - 1) PROVE Tail(t)[i][2] = Tail(t)[i + 1][1]
      <4>1. /\ i \in 1..Len(Tail(t)) /\ i + 1 \in 1..Len(Tail(t)) /\ i + 1 \in 1..(Len(t) - 1)
        BY <3>8
      <4>2. Tail(t)[i] = t[i + 1] /\ Tail(t)[i + 1] = t[(i + 1) + 1]
        BY <3>8, <4>1
      <4>3. t[i + 1][2] = t[(i + 1) + 1][1]
        BY <3>9, <4>1
      <4>4. QED BY <4>2, <4>3
    <3>d. y.todo # <<>> => Head(y.todo)[1] = e.to
      <4>1. SUFFICES ASSUME Tail(t) # <<>> PROVE Head(Tail(t))[1] = e.to
        BY <3>a
      <4> DEFINE k == Len(Tail(t))
                 n == Len(t) - 1
      <4>2. k # 0 /\ k \in Nat /\ Head(Tail(t)) = Tail(t)[1]
        <5>1. \A u \in Seq(Nat \X Nat) :
                 u # <<>> => Len(u) # 0 /\ Len(u) \in Nat /\ Head(u) = u[1]
          OBVIOUS
        <5>2. QED BY <3>a, <4>1, <5>1
      <4>3. 1 \in 1..k /\ 1 \in 1..n
        <5>1. k = n
          BY <3>8
        <5> HIDE DEF k, n
        <5>2. QED BY <4>2, <5>1
      <4>4. Tail(t)[1] = t[1 + 1] /\ t[1][2] = t[1 + 1][1]
        BY <3>8, <3>9, <4>3
      <4>5. QED BY <3>2, <3>4, <4>2, <4>4 DEF t
    <3>e. /\ \A i \in 1..Len(y.todo) : {y.todo[i][1], y.todo[i][2]} \subseteq Logged
          /\ \A i \in 1..(Len(y.todo) - 1) : y.todo[i][2] = y.todo[i + 1][1]
      BY <3>a, <3>b, <3>c
    <3>f. y.stage \in {"sent", "removes"}
      BY <3>3
    <3>g. y.todo # <<>> => Head(y.todo)[1] = y.sent[Len(y.sent)].to
      BY <3>7, <3>d
    <3>h. y.sent # <<>>
      BY <3>7
    <3>i. QED BY <3>6, <3>e, <3>f, <3>g, <3>h DEF ReadIn
  <2>4. CASE Named(p)
    <3>1. PICK n \in x.left : y.recs = x.recs \cup Under(content, n) /\ y.left = x.left \ {n}
      BY <2>4 DEF Named
    <3>2. /\ x.stage = "scan" /\ y.stage = IF y.left = {} THEN "sent" ELSE "scan"
          /\ y.todo = x.todo /\ y.sent = x.sent /\ y.gap = x.gap
      BY <2>4 DEF Named
    <3>3. ~x.gap => SoFarIn(y, latest, Begun, version)
      BY <2>0, <2>a, <3>1, <3>2, SoFarNamed
    <3>4. QED BY <2>0, <3>2, <3>3 DEF ReadIn
  <2>5. CASE Torn(p)
    <3>1. /\ x.stage = "scan" /\ y.stage = "sent" /\ y.gap
          /\ y.todo = x.todo /\ y.sent = x.sent
      BY <2>5 DEF Torn
    <3>2. QED BY <2>0, <3>1 DEF ReadIn
  <2>6. QED BY <1>2, <2>1, <2>2, <2>3, <2>4, <2>5 DEF GoesOn
<1>3. GoesOn(p) => x.stage # "none"
  BY DEF GoesOn, Listed, Removed, StepSent, Named, Torn
<1>4. QED BY <1>1, <1>2, <1>3

(* What a peer takes is what it was sent, and that is what its serial is.  *)
LEMMA CopyTaken ==
    ASSUME TypeOK, XferInv, ListInv, NEW p \in Peers, PeerTakes(p),
           ReadIn(xfer[p], latest, Logged, Begun, version), CopyIn(peer[p], Begun, version)
    PROVE  CopyIn(peer'[p], Begun, version)
<1> DEFINE x == xfer[p]
           c == peer[p]
           d == peer'[p]
<1>1. /\ x.stage = "sent"
      /\ \/ /\ x.sent = <<>> /\ d.serial = x.serial
            /\ d.recs = x.recs /\ d.gap = x.gap
         \/ /\ x.sent # <<>> /\ Leads(x) /\ d.serial = x.serial
            /\ d.recs = ApplyAll(c.recs, x.sent) /\ d.gap = (c.gap \/ x.gap)
         \/ d.serial = c.serial /\ d.recs = c.recs /\ d.gap = c.gap
  BY TakesOf
<1>2. /\ x.base = c.serial /\ x.sent \in Seq(Steps)
      /\ ~x.gap => /\ x.sent = <<>> => SoFarIn(x, latest, Begun, version) /\ x.left = {}
                   /\ x.sent # <<>> => LeadingIn(x.sent, Begun, version)
  <2>1. x \in Xfers
    BY Fields
  <2>2. QED BY <1>1, <2>1 DEF XferInv, ReadIn, Xfers
<1>3. CASE x.sent = <<>> /\ d.serial = x.serial /\ d.recs = x.recs /\ d.gap = x.gap
  BY <1>2, <1>3 DEF CopyIn, SoFarIn, Agree
<1>4. CASE /\ x.sent # <<>> /\ Leads(x) /\ d.serial = x.serial
           /\ d.recs = ApplyAll(c.recs, x.sent) /\ d.gap = (c.gap \/ x.gap)
  <2>1. SUFFICES ASSUME ~d.gap
                 PROVE  d.serial \in Begun /\ Agree(d.recs, d.serial, Begun, version)
    BY DEF CopyIn
  <2>2. ~c.gap /\ ~x.gap
    BY <1>4, <2>1
  <2>3. x.sent[1].from = c.serial
    BY <1>2, <1>4 DEF Leads
  <2>4. x.sent[Len(x.sent)].to = d.serial
    <3>1. Len(x.sent) \in 1..Len(x.sent)
      BY <1>2, <1>4
    <3>2. QED BY <1>4, <3>1 DEF Leads
  <2>5. LeadsIn(x.sent, c.serial, d.serial, Begun, version)
    BY <1>2, <1>4, <2>2, <2>3, <2>4 DEF LeadingIn
  <2>6. c.serial \in Begun /\ d.serial \in Begun
    BY <2>5 DEF LeadsIn
  <2>7. Begun \subseteq Nat /\ c.serial # 0
    BY <2>6, BegunFacts
  <2>8. Agree(c.recs, c.serial, Begun, version)
    BY <2>2, <2>7 DEF CopyIn
  <2>9. Agree(ApplyAll(c.recs, x.sent), d.serial, Begun, version)
    BY <2>5, <2>7, <2>8, StepsAgree
  <2>10. QED BY <1>4, <2>6, <2>9
<1>5. CASE d.serial = c.serial /\ d.recs = c.recs /\ d.gap = c.gap
  BY <1>5 DEF CopyIn
<1>6. QED BY <1>1, <1>3, <1>4, <1>5

LEMMA NotRead == \A l, L, B, v : ReadIn(NoXfer, l, L, B, v)
  BY DEF ReadIn, NoXfer

LEMMA ReadsGrow ==
    ASSUME SpareInv, ReadInv, CopyInv, PeerExact, SpareInv',
           Grown(Begun, version, Begun', version'), Logged \subseteq Logged',
           latest <= latest', UNCHANGED <<xfer, peer>>
    PROVE  ReadInv' /\ CopyInv' /\ PeerExact'
<1>1. TypeOK /\ ListInv /\ XferInv
  BY DEF SpareInv
<1>2. latest \in Nat /\ latest' \in Nat
  BY <1>1 DEF SpareInv, TypeOK
<1>3. Logged \in SUBSET Begun
  BY <1>1, BegunFacts
<1>4. ASSUME NEW q \in Peers PROVE ReadIn(xfer'[q], latest', Logged', Begun', version')
  <2>1. ReadIn(xfer[q], latest, Logged, Begun, version)
    BY ReadEach
  <2>2. xfer[q] \in Xfers /\ (xfer[q].stage \in {"removes", "adds"} => xfer[q].todo # <<>>)
    BY <1>1, Fields DEF XferInv
  <2>3. ReadIn(xfer[q], latest', Logged', Begun', version')
    BY <1>2, <1>3, <2>1, <2>2, ReadGrows
  <2>4. QED BY <2>3
<1>5. ASSUME NEW q \in Peers PROVE CopyIn(peer'[q], Begun', version')
  <2>1. CopyIn(peer[q], Begun, version)
    BY CopyEach
  <2>2. CopyIn(peer[q], Begun', version')
    BY <2>1, CopyGrows
  <2>3. QED BY <2>2
<1>6. QED BY <1>4, <1>5, ReadEachNext, CopyEachNext

LEMMA GrownSame ==
    ASSUME TypeOK, ListInv, UNCHANGED version, UNCHANGED Begun
    PROVE  Grown(Begun, version, Begun', version')
<1>1. Begun \subseteq Nat
  BY BegunFacts
<1>2. QED BY <1>1 DEF Grown

LEMMA ExactInit == Init => ExactInv
<1> SUFFICES ASSUME Init PROVE ExactInv
  OBVIOUS
<1>1. SpareInv
  BY SpareInit
<1>2. /\ content = {} /\ latest = 0 /\ diffs = {} /\ job.stage = "idle"
      /\ version = [s \in Serials \cup {0} |-> {}]
      /\ xfer = [p \in Peers |-> NoXfer]
      /\ \A p \in Peers : peer[p].serial = 0
  BY DEF Init, NoJob
<1>3. version[0] = {}
  BY <1>2
<1>4. CommitInv
  BY <1>2, <1>3 DEF CommitInv
<1>5. DiffsInv
  BY <1>2 DEF DiffsInv
<1>6. ReadInv
  BY <1>2, NotRead, ReadEach
<1>7. CopyInv /\ PeerExact
  BY <1>2 DEF CopyInv, PeerExact
<1>8. QED BY <1>1, <1>4, <1>5, <1>6, <1>7 DEF ExactInv

LEMMA ExactStep == ExactInv /\ [Next]_vars => ExactInv'
<1> SUFFICES ASSUME ExactInv, [Next]_vars PROVE ExactInv'
  OBVIOUS
<1>0. /\ SpareInv /\ CommitInv /\ DiffsInv /\ ReadInv /\ CopyInv /\ PeerExact
      /\ TypeOK /\ XferInv /\ ListInv /\ GCInv /\ IInv
  BY DEF ExactInv, SpareInv
<1>1. SpareInv'
  BY <1>0, SpareStep
<1>2. latest \in Nat
  BY <1>0, Fields
<1>3. ASSUME NEW C \in Changes, StartJob(C) PROVE ExactInv'
  <2>1. CommitInv' /\ DiffsInv'
    BY <1>0, <1>3, CommitStart, DiffsStart
  <2>2. Grown(Begun, version, Begun', version') /\ UNCHANGED <<xfer, peer>>
    BY <1>0, <1>3, StartOf
  <2>3. Logged \subseteq Logged' /\ latest <= latest'
    BY <1>0, <1>3, JobLists
  <2>4. ReadInv' /\ CopyInv' /\ PeerExact'
    BY <1>0, <1>1, <2>2, <2>3, ReadsGrow
  <2>5. QED BY <1>1, <2>1, <2>4 DEF ExactInv
<1>4. CASE JobStep
  <2>1. CommitInv' /\ DiffsInv'
    BY <1>0, <1>4, CommitStep, DiffsStep
  <2>2. UNCHANGED <<version, xfer, peer>> /\ UNCHANGED Begun
    BY <1>0, <1>4, JobSteps
  <2>3. Logged \subseteq Logged' /\ latest <= latest'
    BY <1>0, <1>4, JobLists
  <2>4. Grown(Begun, version, Begun', version')
    BY <1>0, <2>2, GrownSame
  <2>5. ReadInv' /\ CopyInv' /\ PeerExact'
    BY <1>0, <1>1, <2>2, <2>3, <2>4, ReadsGrow
  <2>6. QED BY <1>1, <2>1, <2>5 DEF ExactInv
<1>5. ASSUME NEW p \in Peers, Ask(p) \/ XferStep(p) \/ ReadFails(p) PROVE ExactInv'
  <2>0. Increasing(all)
    BY <1>0, ListIncreasing
  <2>1. /\ OnlyXfer(p) /\ xfer' \in [Peers -> Xfers]
        /\ \/ Asked(p) /\ UNCHANGED peer
           \/ GoesOn(p)
           \/ xfer'[p] = NoXfer /\ UNCHANGED peer
           \/ PeerTakes(p)
    BY <1>0, <1>5, <2>0, XferCases
  <2>2. /\ UNCHANGED <<content, latest, diffs, job, version, commits>>
        /\ UNCHANGED Begun /\ UNCHANGED Logged
    BY <2>1 DEF OnlyXfer, Begun, Logged
  <2>3. CommitInv' /\ DiffsInv'
    BY <1>0, <2>2, SameCommit, SameDiffs
  <2>4. ReadIn(xfer[p], latest, Logged, Begun, version) /\ CopyIn(peer[p], Begun, version)
    BY <1>0, ReadEach, CopyEach
  <2>5. ReadIn(xfer'[p], latest, Logged, Begun, version)
    <3>1. CASE Asked(p) \/ GoesOn(p)
      BY <1>0, <2>1, <2>4, <3>1, ReadXfer
    <3>2. CASE xfer'[p] = NoXfer
      BY <3>2, NotRead
    <3>3. QED BY <1>0, <2>1, <3>1, <3>2, TakesOf
  <2>6. CopyIn(peer'[p], Begun, version)
    <3>1. CASE UNCHANGED peer
      BY <2>4, <3>1
    <3>2. CASE PeerTakes(p)
      BY <1>0, <2>4, <3>2, CopyTaken
    <3>3. QED BY <2>1, <3>1, <3>2 DEF GoesOn
  <2>7. \A q \in Peers \ {p} : xfer'[q] = xfer[q] /\ peer'[q] = peer[q]
    BY <1>0, <2>1, TakesOf DEF OnlyXfer, GoesOn
  <2>8. \A q \in Peers : ReadIn(xfer'[q], latest', Logged', Begun', version')
    BY <1>0, <2>2, <2>5, <2>7, ReadEach
  <2>9. \A q \in Peers : CopyIn(peer'[q], Begun', version')
    BY <1>0, <2>2, <2>6, <2>7, CopyEach
  <2>10. QED BY <1>1, <2>3, <2>8, <2>9, ReadEachNext, CopyEachNext DEF ExactInv
<1>6. ASSUME UNCHANGED <<content, latest, job, version, commits, peer>>, DiffsInv',
             \A q \in Peers : xfer'[q] = xfer[q] \/ xfer'[q] = NoXfer
      PROVE  ExactInv'
  <2>1. UNCHANGED Begun /\ UNCHANGED Logged
    BY <1>6 DEF Begun, Logged
  <2>2. CommitInv'
    BY <1>0, <1>6, SameCommit
  <2>3. \A q \in Peers : ReadIn(xfer'[q], latest', Logged', Begun', version')
    BY <1>0, <1>6, <2>1, ReadEach, NotRead
  <2>4. \A q \in Peers : CopyIn(peer'[q], Begun', version')
    BY <1>0, <1>6, <2>1, CopyEach
  <2>5. QED BY <1>1, <1>6, <2>2, <2>3, <2>4, ReadEachNext, CopyEachNext DEF ExactInv
<1>7. ASSUME NEW p \in Peers, CheckStep(p) \/ DeletePeer(p) PROVE ExactInv'
  <2>1. UNCHANGED <<content, latest, diffs, job, version, commits, peer, xfer>>
    BY <1>0, <1>7, CheckTypes
  <2>2. QED BY <1>0, <1>6, <2>1, SameDiffs
<1>8. CASE GCStep
  <2>1. UNCHANGED <<content, latest, job, version, commits, peer, xfer>>
    BY <1>0, <1>8, GCCases DEF bounds
  <2>2. QED BY <1>0, <1>6, <1>8, <2>1, DiffsCollected
<1>9. CASE Restart
  <2>1. /\ UNCHANGED <<content, latest, diffs, job, version, commits, peer>>
        /\ xfer' = [p \in Peers |-> NoXfer]
    BY <1>9 DEF Restart, redis
  <2>2. QED BY <1>0, <1>6, <2>1, SameDiffs
<1>10. CASE UNCHANGED vars
  <2>1. UNCHANGED <<content, latest, diffs, job, version, commits, peer, xfer>>
    BY <1>10 DEF vars, redis, bounds
  <2>2. QED BY <1>0, <1>6, <2>1, SameDiffs
<1>11. QED BY <1>3, <1>4, <1>5, <1>7, <1>8, <1>9, <1>10 DEF Next

(* PeerExact: a peer whose transfers read all they asked redis for has the *)
(* zone of its serial, but for records a later serial touches: although    *)
(* the hscan of handleAxfr runs into commits, handleIxfr lists a serial    *)
(* that is not yet the latest, and lists are collected while transfers go  *)
(* on (lib/dns-server.js, commitRecords of lib/zone-builder.js).           *)
THEOREM PeersAreExact == Spec => []PeerExact
<1>1. ExactInv => PeerExact
  BY DEF ExactInv
<1>2. QED BY <1>1, ExactInit, ExactStep, PTL DEF Spec

=============================================================================
