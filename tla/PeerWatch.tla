----------------------------- MODULE PeerWatch -----------------------------
(***************************************************************************)
(* What cns-server knows of its peers beyond their transfers, which are    *)
(* ZoneTransfer's: the NOTIFYs it sends when a zone has changed, the peers *)
(* it stops sending them to and takes back, the checks that follow a       *)
(* transfer, and the HTTP API that shows and deletes peers.  All of them   *)
(* live on one pool of redis connections, which some hold while they wait  *)
(* for something else.                                                     *)
(*                                                                         *)
(* One zone: with several, a peer has a record and a check for each, and   *)
(* one count of failures.  Of a serial only its age matters: it is the     *)
(* latest one of the zone or an old one, so that the zone may change for   *)
(* ever.                                                                   *)
(***************************************************************************)
EXTENDS RedisPool

CONSTANTS
    Peers,              \* addresses of peers, the server's own left out
    Reqs,               \* requests the HTTP API may have at a time
    MaxFailures,        \* MAX_NOTIFY_FAILURES: 5
    MaxInFlight,        \* bound: NOTIFYs to a peer that await an answer
    MaxFaults           \* bound: failing reads, writes and claims, checks
                        \* that a stray datagram hangs and deaths of the
                        \* server, together

ASSUME BoundsAssumption ==
    /\ {MaxFailures, MaxInFlight} \subseteq Nat \ {0}
    /\ MaxFaults \in Nat

VARIABLES
    \* --- redis and the peers
    record,             \* peer:<address>: the serial it is known to have
    has,                \* the serial the peer has
    \* --- the server's memory
    failures,           \* notifyFailures
    unblacklist,        \* peers that have an entry in unblacklistTimers
    sent,               \* NOTIFYs that await an answer
    loop,               \* checkAndNotify
    xfer,               \* the transfer in progress
    check,              \* doPeerChecks
    req,                \* requests of the HTTP API
    \* --- history and bounds
    earned,             \* peers that have confirmed a transfer since the
                        \* last NOTIFY to them that failed
    faults

world   == <<record, has>>
notices == <<failures, unblacklist, sent, earned>>
vars    == <<pool, world, notices, loop, xfer, check, req, faults>>

Ages == {"none", "old", "latest"}

LoopClaim  == <<"loop", "server">>
GCClaim    == <<"gc", "server">>
XferClaim(p)  == <<"xfer", p>>
CheckClaim(p) == <<"check", p>>
ReqClaim(r)   == <<"req", r>>
SecondClaim(r) == <<"second", r>>

(* below: the peer has not reached the serial of the transfer that armed   *)
(* the check.  behind: peers whose record was below the serial the loop    *)
(* has read, and has not been written since.                               *)
NoCheck == [stage |-> "none", below |-> FALSE, answer |-> "old", rearm |-> FALSE]
NoXfer  == [stage |-> "none", serial |-> "old"]
NoReq   == "none"
LoopStart == [stage |-> "zones", behind |-> {}]
Asleep    == [stage |-> "sleep", behind |-> {}]

(* The memory of a server that has just started: checkAndNotify is called  *)
(* by the constructor, everything else is empty.                           *)
Fresh ==
    /\ failures' = [p \in Peers |-> 0] /\ unblacklist' = {} /\ earned' = {}
    /\ sent' = [p \in Peers |-> 0]
    /\ loop' = LoopStart /\ held' = {} /\ waiting' = <<LoopClaim>>
    /\ xfer' = [p \in Peers |-> NoXfer] /\ check' = [p \in Peers |-> NoCheck]
    /\ req' = [r \in Reqs |-> NoReq]

Init ==
    /\ record = [p \in Peers |-> "none"] /\ has = [p \in Peers |-> "none"]
    /\ failures = [p \in Peers |-> 0] /\ unblacklist = {} /\ earned = {}
    /\ sent = [p \in Peers |-> 0]
    /\ loop = LoopStart /\ held = {} /\ waiting = <<LoopClaim>>
    /\ xfer = [p \in Peers |-> NoXfer] /\ check = [p \in Peers |-> NoCheck]
    /\ req = [r \in Reqs |-> NoReq]
    /\ faults = 0

Fault == faults < MaxFaults /\ faults' = faults + 1

-----------------------------------------------------------------------------
(* The zone and the peers.                                                 *)

Older(age) == IF age = "latest" THEN "old" ELSE age

(* The updater commits a serial: every other one is older from now on.     *)
Commit ==
    /\ has' = [p \in Peers |-> Older(has[p])]
    /\ record' = [p \in Peers |-> Older(record[p])]
    /\ xfer' = [p \in Peers |-> [xfer[p] EXCEPT !.serial = "old"]]
    /\ check' = [p \in Peers |-> [check[p] EXCEPT !.answer = "old"]]
    /\ UNCHANGED <<pool, notices, loop, req, faults>>

-----------------------------------------------------------------------------
(* checkAndNotify.                                                         *)

LoopUnchanged == UNCHANGED <<world, xfer, check, req>>

WakeLoop ==
    /\ loop.stage = "sleep"
    /\ loop' = LoopStart /\ Claim(LoopClaim)
    /\ UNCHANGED <<notices, faults>> /\ LoopUnchanged

Known(age) == {p \in Peers : record[p] = age}

(* getAllZones.                                                            *)
ReadZones ==
    /\ loop.stage = "zones" /\ LoopClaim \in held
    /\ loop' = [stage |-> "peers", behind |-> Known("old")]
    /\ UNCHANGED <<pool, notices, faults>> /\ LoopUnchanged

(* What the loop may find to be behind the serial it has read: of records  *)
(* written since, any old one may be.                                      *)
MayBeBehind(B) ==
    \E W \in SUBSET (Known("old") \ loop.behind) : B = W \cup (Known("old") \cap loop.behind)

(* Mutant: one failure more.                                               *)
BlacklistedLate(p) == failures[p] > MaxFailures

Blacklisted(p) == failures[p] >= MaxFailures

(* Mutant: keeps the connection while the collection waits for its own.    *)
NotifyPeersHolding(B) ==
    /\ loop.stage = "peers" /\ LoopClaim \in held
    /\ MayBeBehind(B)
    /\ \A p \in B : sent[p] < MaxInFlight
    /\ sent' = [p \in Peers |-> IF p \in B /\ ~Blacklisted(p) THEN sent[p] + 1
                                                           ELSE sent[p]]
    /\ loop' = [Asleep EXCEPT !.stage = "gc"]
    /\ Claim(GCClaim)
    /\ UNCHANGED <<failures, unblacklist, earned, faults>> /\ LoopUnchanged

(* getPeerSerials: B are behind and sent a NOTIFY unless blacklisted; then *)
(* the collection claims a connection of its own.                          *)
NotifyPeers(B) ==
    /\ loop.stage = "peers" /\ LoopClaim \in held
    /\ MayBeBehind(B)
    /\ \A p \in B : sent[p] < MaxInFlight
    /\ sent' = [p \in Peers |-> IF p \in B /\ ~Blacklisted(p) THEN sent[p] + 1
                                                           ELSE sent[p]]
    /\ loop' = [Asleep EXCEPT !.stage = "gc"]
    /\ Exchange(LoopClaim, GCClaim)
    /\ UNCHANGED <<failures, unblacklist, earned, faults>> /\ LoopUnchanged

(* garbageCollect (see ZoneTransfer) has run; the timer is set again.      *)
Collected ==
    /\ loop.stage = "gc" /\ GCClaim \in held
    /\ loop' = Asleep /\ Release({GCClaim})
    /\ UNCHANGED <<notices, faults>> /\ LoopUnchanged

(* Mutant: an error is answered without giving the connection back.        *)
LoopReadLeaks ==
    /\ loop.stage \in {"zones", "peers"} /\ LoopClaim \in held
    /\ loop' = Asleep /\ UNCHANGED pool
    /\ Fault
    /\ UNCHANGED notices /\ LoopUnchanged

(* Reading the zones or the peers fails.                                   *)
LoopReadFails ==
    /\ loop.stage \in {"zones", "peers"} /\ LoopClaim \in held
    /\ loop' = Asleep /\ Release({LoopClaim})
    /\ Fault
    /\ UNCHANGED notices /\ LoopUnchanged

(* Mutant: a failed claim of the collection does not set the timer.        *)
LoopClaimStops ==
    /\ \/ loop.stage = "zones" /\ Refuse(LoopClaim) /\ loop' = Asleep
       \/ loop.stage = "gc" /\ Refuse(GCClaim) /\ UNCHANGED loop
    /\ Fault
    /\ UNCHANGED notices /\ LoopUnchanged

LoopClaimFails ==
    /\ \/ loop.stage = "zones" /\ Refuse(LoopClaim)
       \/ loop.stage = "gc" /\ Refuse(GCClaim)
    /\ loop' = Asleep
    /\ Fault
    /\ UNCHANGED notices /\ LoopUnchanged

-----------------------------------------------------------------------------
(* notify: its answer, and the timer that ends a blacklisting.             *)

NoticeUnchanged == UNCHANGED <<pool, world, loop, xfer, check, req, faults>>

NotifyOk(p) ==
    /\ sent[p] > 0 /\ sent' = [sent EXCEPT ![p] = @ - 1]
    /\ failures' = [failures EXCEPT ![p] = 0]
    /\ UNCHANGED <<unblacklist, earned>> /\ NoticeUnchanged

(* Mutant: onFailure leaves the timer alone.                               *)
NotifyFailsOnly(p) ==
    /\ sent[p] > 0 /\ sent' = [sent EXCEPT ![p] = @ - 1]
    /\ failures' = [failures EXCEPT ![p] = @ + 1]
    /\ earned' = earned \ {p}
    /\ UNCHANGED unblacklist /\ NoticeUnchanged

(* onFailure.                                                              *)
NotifyFails(p) ==
    /\ sent[p] > 0 /\ sent' = [sent EXCEPT ![p] = @ - 1]
    /\ failures' = [failures EXCEPT ![p] = @ + 1]
    /\ unblacklist' = unblacklist \ {p}
    /\ earned' = earned \ {p}
    /\ NoticeUnchanged

(* Mutant: only the entry goes.                                            *)
ForgiveEntry(p) ==
    /\ p \in unblacklist
    /\ unblacklist' = unblacklist \ {p}
    /\ UNCHANGED <<failures, sent, earned>> /\ NoticeUnchanged

(* The timer of startUnblacklist, five minutes after a transfer.           *)
Forgive(p) ==
    /\ p \in unblacklist
    /\ failures' = [failures EXCEPT ![p] = 0]
    /\ unblacklist' = unblacklist \ {p}
    /\ UNCHANGED <<sent, earned>> /\ NoticeUnchanged

-----------------------------------------------------------------------------
(* A transfer, from the peer's SOA query or NOTIFY to its last message.    *)

XferUnchanged == UNCHANGED <<record, notices, loop, req>>

Ask(p) ==
    /\ xfer[p].stage = "none" /\ has[p] # "latest"
    /\ xfer' = [xfer EXCEPT ![p].stage = "claim"] /\ Claim(XferClaim(p))
    /\ UNCHANGED <<has, check, faults>> /\ XferUnchanged

ReadSOA(p) ==
    /\ xfer[p].stage = "claim" /\ XferClaim(p) \in held
    /\ xfer' = [xfer EXCEPT ![p] = [stage |-> "read", serial |-> "latest"]]
    /\ UNCHANGED <<pool, has, check, faults>> /\ XferUnchanged

(* ensurePeerCheckTimer: not while a check is under way.                   *)
Armed(c, below) ==
    IF c.stage = "none" THEN [NoCheck EXCEPT !.stage = "armed", !.below = below]
                        ELSE [c EXCEPT !.below = @ /\ below]

(* The response is sent and the peer takes it, or fails to.                *)
Transferred(p) ==
    /\ xfer[p].stage = "read"
    /\ xfer' = [xfer EXCEPT ![p] = NoXfer]
    /\ Release({XferClaim(p)})
    /\ \/ /\ has' = [has EXCEPT ![p] = xfer[p].serial]
          /\ check' = [check EXCEPT ![p] = Armed(@, FALSE)]
          /\ UNCHANGED faults
       \/ /\ check' = [check EXCEPT ![p] = Armed(@, TRUE)]
          /\ Fault /\ UNCHANGED has
    /\ XferUnchanged

(* The claim or a read fails: an empty answer, or an error.                *)
XferFails(p) ==
    /\ \/ xfer[p].stage = "claim" /\ Refuse(XferClaim(p))
       \/ xfer[p].stage = "read" /\ Release({XferClaim(p)})
    /\ xfer' = [xfer EXCEPT ![p] = NoXfer]
    /\ Fault
    /\ UNCHANGED <<has, check>> /\ XferUnchanged

-----------------------------------------------------------------------------
(* doPeerChecks.                                                           *)

CheckUnchanged == UNCHANGED <<has, failures, sent, xfer, req>>

CheckTimer(p) ==
    /\ check[p].stage = "armed"
    /\ check' = [check EXCEPT ![p].stage = "soa"] /\ Claim(CheckClaim(p))
    /\ UNCHANGED <<record, unblacklist, earned, loop, faults>> /\ CheckUnchanged

(* The answer to the SOA query: a peer that is stuck is checked again, for *)
(* one that is not the transfer counts.                                    *)
PeerAnswers(p) ==
    /\ check[p].stage = "soa" /\ CheckClaim(p) \in held /\ has[p] # "none"
    /\ check' = [check EXCEPT ![p].stage = "save", ![p].answer = has[p],
                              ![p].rearm = check[p].below]
    /\ LET N == IF check[p].below THEN {} ELSE {p} IN
       unblacklist' = unblacklist \cup N /\ earned' = earned \cup N
    /\ UNCHANGED <<pool, record, loop, faults>> /\ CheckUnchanged

SaveSerial(p) ==
    /\ check[p].stage = "save"
    /\ record' = [record EXCEPT ![p] = check[p].answer]
    /\ check' = [check EXCEPT ![p].stage = "version"]
    /\ loop' = [loop EXCEPT !.behind = @ \ {p}]
    /\ UNCHANGED <<pool, unblacklist, earned, faults>> /\ CheckUnchanged

(* The end of the pipeline: checkTimers forgets the check, or has it once  *)
(* more.                                                                   *)
EndCheck(p) ==
    /\ check' = [check EXCEPT ![p] =
          IF @.rearm THEN [NoCheck EXCEPT !.stage = "armed", !.below = check[p].below]
                     ELSE NoCheck]
    /\ Release({CheckClaim(p)})
    /\ UNCHANGED <<record, unblacklist, earned, loop>> /\ CheckUnchanged

VersionSaved(p) ==
    /\ check[p].stage = "version"
    /\ EndCheck(p) /\ UNCHANGED faults

(* The query is not answered within two seconds, or with an error.         *)
NoAnswer(p) ==
    /\ check[p].stage = "soa" /\ CheckClaim(p) \in held
    /\ EndCheck(p)
    /\ IF has[p] = "none" THEN UNCHANGED faults ELSE Fault

CheckFails(p) ==
    /\ \/ check[p].stage = "save" /\ EndCheck(p)
       \/ /\ check[p].stage = "soa" /\ Refuse(CheckClaim(p))
          /\ check' = [check EXCEPT ![p] = NoCheck]
          /\ UNCHANGED <<record, unblacklist, earned, loop>> /\ CheckUnchanged
    /\ Fault

(* sendUDPQuery: any datagram stops the timeout, and one with another id   *)
(* is passed over; if the answer is lost nothing ends the query.           *)
StrayDatagram(p) ==
    /\ check[p].stage \in {"soa", "version"} /\ CheckClaim(p) \in held
    /\ check' = [check EXCEPT ![p].stage = "hung"]
    /\ Fault
    /\ UNCHANGED <<pool, record, unblacklist, earned, loop>> /\ CheckUnchanged

-----------------------------------------------------------------------------
(* The HTTP API: server.pre claims a connection for every request, which   *)
(* goes back after it.                                                     *)

ReqUnchanged == UNCHANGED <<has, notices, loop, xfer, check>>

StartReq(r, kind) ==
    /\ req[r] = NoReq
    /\ req' = [req EXCEPT ![r] = kind] /\ Claim(ReqClaim(r))
    /\ UNCHANGED <<record, faults>> /\ ReqUnchanged

(* GET /peers: the serials are read on the connection of the request, the  *)
(* versions on a second one.                                               *)
GotSerials(r) ==
    /\ req[r] = "get" /\ ReqClaim(r) \in held
    /\ req' = [req EXCEPT ![r] = "versions"] /\ Claim(SecondClaim(r))
    /\ UNCHANGED <<record, faults>> /\ ReqUnchanged

GotVersions(r) ==
    /\ req[r] = "versions" /\ SecondClaim(r) \in held
    /\ req' = [req EXCEPT ![r] = NoReq] /\ Release({ReqClaim(r), SecondClaim(r)})
    /\ UNCHANGED <<record, faults>> /\ ReqUnchanged

(* DELETE /peer/:address, and the other requests, which change nothing.    *)
DeletePeer(r, p) ==
    /\ req[r] = "delete" /\ ReqClaim(r) \in held
    /\ record' = [record EXCEPT ![p] = "none"]
    /\ req' = [req EXCEPT ![r] = NoReq] /\ Release({ReqClaim(r)})
    /\ UNCHANGED faults /\ ReqUnchanged

ReqFails(r) ==
    /\ \/ /\ req[r] \in {"get", "delete"} /\ ReqClaim(r) \in held
          /\ Release({ReqClaim(r)})
       \/ /\ req[r] = "versions" /\ SecondClaim(r) \in held
          /\ Release({ReqClaim(r), SecondClaim(r)})
       \/ /\ req[r] = "versions" /\ waiting # <<>> /\ Head(waiting) = SecondClaim(r)
          /\ waiting' = Tail(waiting) /\ held' = held \ {ReqClaim(r)}
    /\ req' = [req EXCEPT ![r] = NoReq]
    /\ Fault
    /\ UNCHANGED record /\ ReqUnchanged

-----------------------------------------------------------------------------
(* The server dies and is started again: killed, or by server.pre throwing *)
(* the error of a claim.                                                   *)
Restart ==
    /\ Fault
    /\ Fresh
    /\ UNCHANGED world

LoopStep  == WakeLoop \/ ReadZones \/ Collected \/ \E B \in SUBSET Peers : NotifyPeers(B)
NoticeStep(p) == NotifyOk(p) \/ NotifyFails(p)
XferStep(p)  == ReadSOA(p) \/ Transferred(p)
CheckStep(p) == \/ CheckTimer(p) \/ PeerAnswers(p) \/ SaveSerial(p)
                \/ VersionSaved(p) \/ NoAnswer(p)
ReqStep(r)   == GotSerials(r) \/ GotVersions(r) \/ \E p \in Peers : DeletePeer(r, p)

PeerNext(p) ==
    \/ NoticeStep(p) \/ Forgive(p)
    \/ Ask(p) \/ XferStep(p) \/ XferFails(p)
    \/ CheckStep(p) \/ CheckFails(p) \/ StrayDatagram(p)

Next ==
    \/ Commit
    \/ Grant /\ UNCHANGED <<world, notices, loop, xfer, check, req, faults>>
    \/ LoopStep \/ LoopReadFails \/ LoopClaimFails
    \/ \E p \in Peers : PeerNext(p)
    \/ \E r \in Reqs : ReqStep(r) \/ ReqFails(r)
                       \/ \E kind \in {"get", "delete"} : StartReq(r, kind)
    \/ Restart

(* The pool serves whom it can, redis and the network answer or time out,  *)
(* and timers fire.                                                        *)
Fairness ==
    /\ WF_vars(Grant /\ UNCHANGED <<world, notices, loop, xfer, check, req, faults>>)
    /\ WF_vars(LoopStep)
    /\ \A p \in Peers :
          /\ WF_vars(NoticeStep(p)) /\ WF_vars(Forgive(p))
          /\ WF_vars(XferStep(p)) /\ WF_vars(CheckStep(p))
    /\ \A r \in Reqs : WF_vars(ReqStep(r))

Spec == Init /\ [][Next]_vars /\ Fairness

-----------------------------------------------------------------------------
(* Properties.                                                             *)

(* Every variable has its type.  In particular the failures of a peer pass *)
(* the limit by no more than the NOTIFYs that were under way.              *)
TypeOK ==
    /\ record \in [Peers -> Ages] /\ has \in [Peers -> Ages]
    /\ failures \in [Peers -> 0..(MaxFailures + MaxInFlight - 1)]
    /\ unblacklist \subseteq Peers /\ earned \subseteq Peers
    /\ sent \in [Peers -> 0..MaxInFlight]
    /\ loop \in [stage : {"sleep", "zones", "peers", "gc"}, behind : SUBSET Peers]
    /\ xfer \in [Peers -> [stage : {"none", "claim", "read"}, serial : {"old", "latest"}]]
    /\ check \in [Peers -> [stage : {"none", "armed", "soa", "save", "version", "hung"},
                            below : BOOLEAN, answer : {"old", "latest"},
                            rearm : BOOLEAN]]
    /\ req \in [Reqs -> {"none", "get", "delete", "versions"}]
    /\ faults \in 0..MaxFaults

(* The claims of what is under way.                                        *)
OpenClaims ==
    {c \in {LoopClaim} : loop.stage \in {"zones", "peers"}}
    \cup {c \in {GCClaim} : loop.stage = "gc"}
    \cup {XferClaim(p) : p \in {q \in Peers : xfer[q].stage # "none"}}
    \cup {CheckClaim(p) : p \in {q \in Peers : check[q].stage \notin {"none", "armed"}}}
    \cup {ReqClaim(r) : r \in {s \in Reqs : req[s] # "none"}}
    \cup {SecondClaim(r) : r \in {s \in Reqs : req[s] = "versions"}}

(* No connection is lost: on every path, failures and hung queries         *)
(* included, a connection that is out or asked for belongs to something    *)
(* still under way, whose end will give it back.                           *)
NoLeak == held \cup InLine = OpenClaims

(* A blacklisted peer has the timer that will take it off the list if and  *)
(* only if it has confirmed a transfer since the last NOTIFY to it that    *)
(* failed, in whatever order the answers come in (dns-server.js:905,1047). *)
BlacklistEnds ==
    \A p \in Peers : Blacklisted(p) => (p \in unblacklist <=> p \in earned)

(* Requests for peers and hung checks leave a connection for the rest.     *)
Fits == MaxFaults + Cardinality(Reqs) < PoolSize

(* A query that claims a connection gets one, or an error, in the end,     *)
(* although requests, checks and the loop hold theirs while they wait for  *)
(* another or for the network.                                             *)
QueriesAreServed ==
    Fits => \A p \in Peers : XferClaim(p) \in InLine ~> XferClaim(p) \notin InLine

(* A peer that is known to be behind is sent a NOTIFY, unless it is        *)
(* blacklisted or comes by itself: the loop goes on through every error.   *)
BehindIsNotified ==
    Fits => \A p \in Peers : record[p] = "old" ~>
        (record[p] # "old" \/ sent[p] > 0 \/ Blacklisted(p)
            \/ check[p].stage \notin {"none", "hung"})

(* No blacklisting is for ever, whatever NOTIFYs fail late, as long as the *)
(* peer goes on transferring the zone and its check does not hang.         *)
Forgiven ==
    Fits => \A p \in Peers :
        ([]<><<Ask(p)>>_vars /\ <>[](check[p].stage # "hung")) => []<>~Blacklisted(p)

-----------------------------------------------------------------------------
(* Why TypeOK, NoLeak and BlacklistEnds hold: an invariant that every step *)
(* preserves (PeerWatch_proofs).                                           *)

Claims ==
    {LoopClaim, GCClaim}
    \cup {XferClaim(p) : p \in Peers} \cup {CheckClaim(p) : p \in Peers}
    \cup {ReqClaim(r) : r \in Reqs} \cup {SecondClaim(r) : r \in Reqs}

(* No claim is made twice.                                                 *)
Distinct ==
    /\ held \subseteq Claims /\ waiting \in Seq(Claims)
    /\ held \cap InLine = {}
    /\ \A i, j \in 1..Len(waiting) : waiting[i] = waiting[j] => i = j

(* What comes after a claim was granted has the connection.                *)
HoldInv ==
    /\ \A p \in Peers : xfer[p].stage = "read" => XferClaim(p) \in held
    /\ \A p \in Peers :
          check[p].stage \in {"save", "version", "hung"} => CheckClaim(p) \in held
    /\ \A r \in Reqs : req[r] = "versions" => ReqClaim(r) \in held

(* No NOTIFY is sent to a blacklisted peer, but some may be under way.     *)
FailuresInv ==
    \A p \in Peers :
        sent[p] > 0 => failures[p] + sent[p] <= MaxFailures + MaxInFlight - 1

EarnedInv ==
    /\ unblacklist \subseteq earned
    /\ \A p \in earned \ unblacklist : failures[p] = 0

IInv == TypeOK /\ Distinct /\ HoldInv /\ NoLeak /\ FailuresInv /\ EarnedInv

=============================================================================
