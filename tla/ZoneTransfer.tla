---------------------------- MODULE ZoneTransfer ----------------------------
(***************************************************************************)
(* How a zone gets from redis to the secondary servers, its peers: zone    *)
(* transfers, the peer checks that follow them and the garbage collection  *)
(* of old changes (lib/dns-server.js), while cns-updater goes on           *)
(* committing to the same zone (lib/zone-builder.js).  The two processes   *)
(* share nothing but redis, and every step here is one answer of redis or  *)
(* of a peer.                                                              *)
(*                                                                         *)
(* The peers are not part of CNS: they are modelled from what the server   *)
(* sends them, by the rules of RFC 1995 and 5936.                          *)
(***************************************************************************)
EXTENDS Integers, Sequences

CONSTANTS
    Names,          \* names under the zone
    Vals,           \* the records a name may have
    Changes,        \* sets of records that a serial may add or remove together
    Peers,          \* addresses of secondaries, the loopback ones left aside
    Defaults,       \* what currentSerial() may give before the first commit
    MaxCommits,     \* bound: serials of the zone
    MaxDeletes,     \* bound: calls of DELETE /peer/:address
    MaxRestarts,    \* bound: how often the server process dies
    MaxUnanswered,  \* bound: SOA queries to a peer that it does not answer
    MaxErrors       \* bound: reads of redis that fail in a transfer

ASSUME PeersAssumption ==
    /\ Changes \subseteq (SUBSET (Names \X Vals)) \ {{}}
    /\ Peers # {} /\ Defaults \subseteq Nat \ {0}
    /\ MaxCommits \in Nat /\ MaxDeletes \in Nat
    /\ MaxRestarts \in Nat /\ MaxUnanswered \in Nat /\ MaxErrors \in Nat

VARIABLES
    \* --- redis
    content,        \* zone:<z>
    latest,         \* zone:<z>:latest; 0 when absent
    all,            \* zone:<z>:all
    diffs,          \* entries of zone:<z>:<from>:<to>:remove and :add
    record,         \* peer:<address>, field <z>; 0 when absent
    \* --- the updater
    job,            \* its commit of this zone
    \* --- the server
    xfer,           \* the transfer to each peer
    check,          \* the peer check of each peer: checkTimers
    gc,             \* garbageCollect
    \* --- the peers
    peer,           \* the copy of the zone each has
    \* --- history
    version,        \* what the zone was at each serial, and before the first
    commits, deletes, restarts, unanswered, errors

redis   == <<content, latest, all, diffs>>
bounds  == <<commits, deletes, restarts, unanswered, errors>>
vars    == <<redis, record, job, xfer, check, gc, peer, version, bounds>>

Records == Names \X Vals

(* Serials are 10 s ticks: between two of one zone there may be others,    *)
(* the odd numbers here.                                                   *)
SerialOf(n) == 2 * n
Serials == {SerialOf(n) : n \in 1..MaxCommits} \cup Defaults

NoJob   == [stage |-> "idle", serial |-> 0, rms |-> {}, adds |-> {}, names |-> {}]
NoXfer  == [stage |-> "none", base |-> 0, serial |-> 0, todo |-> <<>>,
            sent |-> <<>>, left |-> {}, recs |-> {}, gap |-> FALSE]
NoCheck == [stage |-> "none", serial |-> 0, answer |-> 0]
NoGC    == [stage |-> "idle", latest |-> 0, seen |-> [p \in Peers |-> 0],
            drop |-> {}, rem |-> {}]

Init ==
    /\ content = {} /\ latest = 0 /\ all = <<>> /\ diffs = {}
    /\ record = [p \in Peers |-> 0]
    /\ job = NoJob /\ gc = NoGC
    /\ xfer = [p \in Peers |-> NoXfer]
    /\ check = [p \in Peers |-> NoCheck]
    /\ peer = [p \in Peers |-> [serial |-> 0, recs |-> {}, axfr |-> TRUE,
                                gap |-> FALSE]]
    /\ version = [s \in Serials \cup {0} |-> {}]
    /\ commits = 0 /\ deletes = 0 /\ restarts = 0
    /\ unanswered = 0 /\ errors = 0

-----------------------------------------------------------------------------
(* The updater commits a serial of this zone, as UpdateStream has it.      *)

JobUnchanged == UNCHANGED <<record, xfer, check, gc, peer, deletes, restarts,
                            unanswered, errors>>

Entries(op, R) ==
    IF latest = 0 THEN {}
    ELSE [from : {latest}, to : {job.serial}, op : {op}, rec : R]

StartJob(C) ==
    /\ job.stage = "idle" /\ commits < MaxCommits
    /\ commits' = commits + 1
    /\ job' = [stage |-> "remove", serial |-> SerialOf(commits + 1),
               rms |-> C \cap content, adds |-> C \ content,
               names |-> {r[1] : r \in C}]
    /\ version' = [version EXCEPT ![SerialOf(commits + 1)] =
                     (content \ C) \cup (C \ content)]
    /\ UNCHANGED redis
    /\ JobUnchanged

PushRemoves ==
    /\ job.stage = "remove"
    /\ diffs' = diffs \cup Entries("remove", job.rms)
    /\ job' = [job EXCEPT !.stage = "add"]
    /\ UNCHANGED <<content, latest, all, version, commits>>
    /\ JobUnchanged

PushAdds ==
    /\ job.stage = "add"
    /\ diffs' = diffs \cup Entries("add", job.adds)
    /\ job' = [job EXCEPT !.stage = "names"]
    /\ UNCHANGED <<content, latest, all, version, commits>>
    /\ JobUnchanged

Under(R, n) == {r \in R : r[1] = n}

CommitName(n) ==
    /\ job.stage = "names" /\ n \in job.names
    /\ content' = (content \ Under(job.rms, n)) \cup Under(job.adds, n)
    /\ job' = [job EXCEPT !.names = @ \ {n}]
    /\ UNCHANGED <<latest, all, diffs, version, commits>>
    /\ JobUnchanged

PushAll ==
    /\ job.stage = "names" /\ job.names = {}
    /\ all' = Append(all, job.serial)
    /\ job' = [job EXCEPT !.stage = "latest"]
    /\ UNCHANGED <<content, latest, diffs, version, commits>>
    /\ JobUnchanged

SetLatest ==
    /\ job.stage = "latest"
    /\ latest' = job.serial
    /\ job' = NoJob
    /\ UNCHANGED <<content, all, diffs, version, commits>>
    /\ JobUnchanged

JobStep == \/ PushRemoves \/ PushAdds \/ \E n \in Names : CommitName(n)
           \/ PushAll \/ SetLatest

-----------------------------------------------------------------------------
(* handleTransfer.                                                         *)

XferUnchanged == UNCHANGED <<redis, record, job, gc, version, commits, deletes,
                             restarts, unanswered>>

Begin(p, serial, default) ==
    xfer' = [xfer EXCEPT ![p] =
               [NoXfer EXCEPT !.stage = IF peer[p].axfr THEN "scan" ELSE "list",
                              !.serial = serial, !.base = peer[p].serial,
                              !.left = Names, !.gap = default]]

(* A peer that has no zone, or finds the SOA here newer than its own, asks *)
(* for a transfer; makeSOA reads the serial before anything else is read,  *)
(* and falls back on the clock, which no serial is more than one tick      *)
(* ahead of, when it reads none or fails to.                               *)
Ask(p) ==
    /\ xfer[p].stage = "none"
    /\ peer[p].serial = 0 \/ latest > peer[p].serial
    /\ \/ latest # 0 /\ Begin(p, latest, FALSE) /\ UNCHANGED errors
       \/ latest = 0 /\ UNCHANGED errors
          /\ \E s \in Defaults : Begin(p, s, TRUE)
       \/ latest # 0 /\ errors < MaxErrors /\ errors' = errors + 1
          /\ \E s \in Defaults : s + 1 >= latest /\ Begin(p, s, TRUE)
    /\ UNCHANGED <<check, peer>>
    /\ XferUnchanged

(* Where the changes begin for a peer at `base`: at its own serial, or at  *)
(* the one before it if `base` is not listed.                              *)
Starts(serials, base) ==
    {i \in 1..(Len(serials) - 1) :
        \/ serials[i] = base
        \/ /\ serials[i] < base
           /\ i + 1 < Len(serials) /\ serials[i + 1] > base}

Chain(serials, base) ==
    LET first == IF Starts(serials, base) = {} THEN Len(serials)
                 ELSE CHOOSE i \in Starts(serials, base) :
                        \A j \in Starts(serials, base) : i <= j
    IN  [k \in 1..(Len(serials) - first) |->
            <<serials[first + k - 1], serials[first + k]>>]

(* Mutant: has nothing to say to a peer there are no changes for.          *)
ListSerialsOnly(p) ==
    /\ xfer[p].stage = "list"
    /\ LET chain == Chain(all, xfer[p].base) IN
       xfer' = IF chain = <<>> THEN [xfer EXCEPT ![p] = NoXfer]
               ELSE [xfer EXCEPT ![p].todo = chain, ![p].stage = "removes"]
    /\ UNCHANGED <<check, peer, errors>>
    /\ XferUnchanged

(* The lrange of zone:<z>:all for an IXFR.  Without changes for this peer  *)
(* it is sent the whole zone.                                              *)
ListSerials(p) ==
    /\ xfer[p].stage = "list"
    /\ LET chain == Chain(all, xfer[p].base) IN
       xfer' = [xfer EXCEPT ![p].todo = chain,
                            ![p].stage = IF chain = <<>> THEN "scan" ELSE "removes"]
    /\ UNCHANGED <<check, peer, errors>>
    /\ XferUnchanged

DiffList(pair, op) ==
    {e.rec : e \in {f \in diffs : f.from = pair[1] /\ f.to = pair[2] /\ f.op = op}}

(* An IXFR list that redis does not have reads as an empty one.  A commit  *)
(* pushes at least one entry for each serial, so no entry at all means the *)
(* lists are gone.                                                         *)
Gone(pair) == ~ \E e \in diffs : e.from = pair[1] /\ e.to = pair[2]

(* Mutant: arms a check that does not know which serial to expect.         *)
FinishBlind(p) ==
    check' = IF check[p].stage = "none"
               THEN [check EXCEPT ![p] = [NoCheck EXCEPT !.stage = "armed"]]
               ELSE check

(* The end of a response: the peer check is armed, unless one is under way.*)
Finish(p) ==
    check' = IF check[p].stage = "none"
               THEN [check EXCEPT ![p] = [NoCheck EXCEPT !.stage = "armed",
                                                         !.serial = xfer[p].serial]]
               ELSE check

ReadRemoves(p) ==
    /\ xfer[p].stage = "removes"
    /\ LET pair == Head(xfer[p].todo) IN
       xfer' = [xfer EXCEPT ![p].stage = "adds",
                            ![p].recs  = DiffList(pair, "remove"),
                            ![p].gap   = @ \/ Gone(pair)]
    /\ UNCHANGED <<check, peer, errors>>
    /\ XferUnchanged

(* With the additions a step from one serial to the next is complete.      *)
SendDiff(p, additions, gap) ==
    LET pair == Head(xfer[p].todo)
        last == Len(xfer[p].todo) = 1
    IN  /\ xfer' = [xfer EXCEPT
              ![p].stage = IF last THEN "sent" ELSE "removes",
              ![p].todo  = Tail(@),
              ![p].sent  = Append(@, [from |-> pair[1], to |-> pair[2],
                                      remove |-> xfer[p].recs, add |-> additions]),
              ![p].recs  = {},
              ![p].gap   = @ \/ gap]
        /\ IF last THEN Finish(p) ELSE UNCHANGED check

ReadAdds(p) ==
    /\ xfer[p].stage = "adds"
    /\ LET pair == Head(xfer[p].todo)
       IN  SendDiff(p, DiffList(pair, "add"), Gone(pair))
    /\ UNCHANGED <<peer, errors>>
    /\ XferUnchanged

(* Mutant: the closing SOA has the serial that is the latest by then.      *)
ReadNameLate(p, n) ==
    /\ xfer[p].stage = "scan" /\ n \in xfer[p].left
    /\ xfer' = [xfer EXCEPT
          ![p].recs  = @ \cup Under(content, n),
          ![p].left  = @ \ {n},
          ![p].serial = IF latest # 0 THEN latest ELSE @,
          ![p].stage = IF xfer[p].left = {n} THEN "sent" ELSE "scan"]
    /\ IF xfer[p].left = {n} THEN Finish(p) ELSE UNCHANGED check
    /\ UNCHANGED <<peer, errors>>
    /\ XferUnchanged

(* The hscan of an AXFR, one name at a time, in any order.                 *)
ReadName(p, n) ==
    /\ xfer[p].stage = "scan" /\ n \in xfer[p].left
    /\ xfer' = [xfer EXCEPT
          ![p].recs  = @ \cup Under(content, n),
          ![p].left  = @ \ {n},
          ![p].stage = IF xfer[p].left = {n} THEN "sent" ELSE "scan"]
    /\ IF xfer[p].left = {n} THEN Finish(p) ELSE UNCHANGED check
    /\ UNCHANGED <<peer, errors>>
    /\ XferUnchanged

(* A read of redis fails: the list of serials answers the query with an    *)
(* error, a list of changes counts as empty, a scan ends the zone early.   *)
ReadFails(p) ==
    /\ errors < MaxErrors
    /\ errors' = errors + 1
    /\ \/ /\ xfer[p].stage = "list"
          /\ xfer' = [xfer EXCEPT ![p] = NoXfer]
          /\ UNCHANGED check
       \/ /\ xfer[p].stage = "removes"
          /\ xfer' = [xfer EXCEPT ![p].stage = "adds", ![p].recs = {},
                                  ![p].gap = TRUE]
          /\ UNCHANGED check
       \/ xfer[p].stage = "adds" /\ SendDiff(p, {}, TRUE)
       \/ /\ xfer[p].stage = "scan"
          /\ xfer' = [xfer EXCEPT ![p].stage = "sent", ![p].gap = TRUE]
          /\ Finish(p)
    /\ UNCHANGED peer
    /\ XferUnchanged

(* A peer takes an IXFR that leads from its own serial to the one the      *)
(* response begins and ends with; otherwise it asks for the whole zone     *)
(* next time.                                                              *)
Leads(x) ==
    /\ x.sent[1].from = x.base
    /\ \A i \in 1..Len(x.sent) : x.sent[i].to = x.serial <=> i = Len(x.sent)

(* The steps of an IXFR, applied one after the other: what no step from    *)
(* the i-th on removes again.                                              *)
KeptFrom(r, i, sent) == \A j \in i..Len(sent) : r \notin sent[j].remove

Added(r, sent) == \E i \in 1..Len(sent) : r \in sent[i].add /\ KeptFrom(r, i + 1, sent)

ApplyAll(R, sent) ==
    {r \in Records : Added(r, sent) \/ (r \in R /\ KeptFrom(r, 1, sent))}

PeerTakes(p) ==
    /\ xfer[p].stage = "sent"
    /\ LET x == xfer[p] IN
       peer' = [peer EXCEPT ![p] =
          IF x.sent = <<>>
            THEN [serial |-> x.serial, recs |-> x.recs, axfr |-> FALSE, gap |-> x.gap]
          ELSE IF Leads(x)
            THEN [serial |-> x.serial, recs |-> ApplyAll(@.recs, x.sent),
                  axfr |-> FALSE, gap |-> @.gap \/ x.gap]
          ELSE [@ EXCEPT !.axfr = TRUE]]
    /\ xfer' = [xfer EXCEPT ![p] = NoXfer]
    /\ UNCHANGED <<check, errors>>
    /\ XferUnchanged

-----------------------------------------------------------------------------
(* doPeerChecks.                                                           *)

CheckUnchanged == UNCHANGED <<redis, job, xfer, gc, peer, version, commits,
                              restarts, errors>>

(* The peer answers the SOA query of its check with the serial it has.     *)
PeerAnswers(p) ==
    /\ check[p].stage = "armed" /\ peer[p].serial # 0
    /\ check' = [check EXCEPT ![p].stage = "answered",
                              ![p].answer = peer[p].serial]
    /\ UNCHANGED <<record, deletes, unanswered>>
    /\ CheckUnchanged

(* It does not: the check ends, nothing is written down.                   *)
NoAnswer(p) ==
    /\ check[p].stage = "armed"
    /\ peer[p].serial = 0 \/ unanswered < MaxUnanswered
    /\ unanswered' = IF peer[p].serial = 0 THEN unanswered ELSE unanswered + 1
    /\ check' = [check EXCEPT ![p] = NoCheck]
    /\ UNCHANGED <<record, deletes>>
    /\ CheckUnchanged

(* Mutant: writes down the serial that was sent.                           *)
SaveSent(p) ==
    /\ check[p].stage = "answered"
    /\ record' = [record EXCEPT ![p] = check[p].serial]
    /\ check' = [check EXCEPT ![p].stage = "saved"]
    /\ UNCHANGED <<deletes, unanswered>>
    /\ CheckUnchanged

SaveSerial(p) ==
    /\ check[p].stage = "answered"
    /\ record' = [record EXCEPT ![p] = check[p].answer]
    /\ check' = [check EXCEPT ![p].stage = "saved"]
    /\ UNCHANGED <<deletes, unanswered>>
    /\ CheckUnchanged

(* The hset is answered, the version probed: the timer is forgotten, or    *)
(* set again for a peer that is behind.                                    *)
CheckDone(p) ==
    /\ check[p].stage = "saved"
    /\ check' = [check EXCEPT ![p] =
          IF @.answer < @.serial
            THEN [NoCheck EXCEPT !.stage = "armed", !.serial = check[p].serial]
            ELSE NoCheck]
    /\ UNCHANGED <<record, deletes, unanswered>>
    /\ CheckUnchanged

(* DELETE /peer/:address.                                                  *)
DeletePeer(p) ==
    /\ record[p] # 0 /\ deletes < MaxDeletes
    /\ deletes' = deletes + 1
    /\ record' = [record EXCEPT ![p] = 0]
    /\ UNCHANGED <<check, unanswered>>
    /\ CheckUnchanged

-----------------------------------------------------------------------------
(* checkAndNotify and garbageCollect.                                      *)

GCUnchanged == UNCHANGED <<content, latest, record, job, xfer, check, peer,
                           version, bounds>>

(* getAllZones, then getPeerSerials; a zone without a serial is left out.  *)
ReadZones ==
    /\ gc.stage = "idle" /\ latest # 0
    /\ gc' = [gc EXCEPT !.stage = "zones", !.latest = latest]
    /\ UNCHANGED <<all, diffs>>
    /\ GCUnchanged

ReadPeers ==
    /\ gc.stage = "zones"
    /\ gc' = [gc EXCEPT !.stage = "peers", !.seen = record]
    /\ UNCHANGED <<all, diffs>>
    /\ GCUnchanged

(* Mutant: does not look at the peers.                                     *)
NeededHere == {gc.latest}

(* The serials that are needed: of the zone, and of its known peers.       *)
Needed == {gc.latest} \cup {gc.seen[p] : p \in {q \in Peers : gc.seen[q] # 0}}

(* Of the serials below the lowest of them all but the last two are        *)
(* dropped.                                                                *)
Old == {i \in 1..Len(all) : \A t \in Needed : all[i] < t}
Doomed == {all[i] : i \in {j \in Old : \E k, l \in Old : j < k /\ k < l}}

Collect ==
    /\ gc.stage = "peers"
    /\ gc' = IF Doomed = {} THEN NoGC
             ELSE [gc EXCEPT !.stage = "drop", !.drop = Doomed]
    /\ UNCHANGED <<all, diffs>>
    /\ GCUnchanged

(* dropSerial: first the lists from and to the serial, then its entry in   *)
(* the list of serials.                                                    *)
DropKeys(s) ==
    /\ gc.stage = "drop" /\ s \in gc.drop
    /\ diffs' = {e \in diffs : s \notin {e.from, e.to}}
    /\ gc' = [gc EXCEPT !.drop = @ \ {s}, !.rem = @ \cup {s}]
    /\ UNCHANGED all
    /\ GCUnchanged

(* Mutant: the entry stays.                                                *)
KeepSerial(s) ==
    /\ gc.stage = "drop" /\ s \in gc.rem
    /\ gc' = IF gc.drop = {} /\ gc.rem = {s} THEN NoGC
             ELSE [gc EXCEPT !.rem = @ \ {s}]
    /\ UNCHANGED <<all, diffs>>
    /\ GCUnchanged

(* lrem with a count of 1: the first one goes.                             *)
Without(serials, s) ==
    IF \A i \in 1..Len(serials) : serials[i] # s THEN serials
    ELSE LET i == CHOOSE k \in 1..Len(serials) :
                    serials[k] = s /\ \A j \in 1..(k - 1) : serials[j] # s
         IN  SubSeq(serials, 1, i - 1) \o SubSeq(serials, i + 1, Len(serials))

RemSerial(s) ==
    /\ gc.stage = "drop" /\ s \in gc.rem
    /\ all' = Without(all, s)
    /\ gc' = IF gc.drop = {} /\ gc.rem = {s} THEN NoGC
             ELSE [gc EXCEPT !.rem = @ \ {s}]
    /\ UNCHANGED diffs
    /\ GCUnchanged

GCStep == ReadZones \/ ReadPeers \/ Collect
          \/ \E s \in Serials : DropKeys(s) \/ RemSerial(s)

-----------------------------------------------------------------------------
(* The server process dies and is started again: transfers break off,      *)
(* timers and the garbage collection are forgotten.                        *)
Restart ==
    /\ restarts < MaxRestarts
    /\ restarts' = restarts + 1
    /\ xfer' = [p \in Peers |-> NoXfer]
    /\ check' = [p \in Peers |-> NoCheck]
    /\ gc' = NoGC
    /\ UNCHANGED <<redis, record, job, peer, version, commits, deletes,
                   unanswered, errors>>

XferStep(p) == \/ ListSerials(p) \/ ReadRemoves(p) \/ ReadAdds(p)
               \/ \E n \in Names : ReadName(p, n)
               \/ PeerTakes(p)

CheckStep(p) == PeerAnswers(p) \/ NoAnswer(p) \/ SaveSerial(p) \/ CheckDone(p)

Next ==
    \/ \E C \in Changes : StartJob(C)
    \/ JobStep
    \/ \E p \in Peers : Ask(p) \/ XferStep(p) \/ ReadFails(p) \/ CheckStep(p)
                        \/ DeletePeer(p)
    \/ GCStep
    \/ Restart

(* Redis and the peers answer, peers look at the SOA again and again, and  *)
(* the timers of the server go on.                                         *)
Fairness ==
    /\ WF_vars(JobStep) /\ WF_vars(GCStep)
    /\ \A p \in Peers : WF_vars(Ask(p)) /\ WF_vars(XferStep(p)) /\ WF_vars(CheckStep(p))

Spec == Init /\ [][Next]_vars /\ Fairness

-----------------------------------------------------------------------------
(* Properties.                                                             *)

Jobs == [stage : {"idle", "remove", "add", "names", "latest"}, serial : Nat,
         rms : SUBSET Records, adds : SUBSET Records, names : SUBSET Names]

Steps == [from : Nat, to : Nat, remove : SUBSET Records, add : SUBSET Records]

Xfers == [stage : {"none", "list", "removes", "adds", "scan", "sent"},
          base : Nat, serial : Nat, todo : Seq(Nat \X Nat), sent : Seq(Steps),
          left : SUBSET Names, recs : SUBSET Records, gap : BOOLEAN]

Checks == {NoCheck} \cup [stage : {"armed", "answered", "saved"},
                          serial : Nat \ {0}, answer : Nat]

GCs == [stage : {"idle", "zones", "peers", "drop"}, latest : Nat,
        seen : [Peers -> Nat], drop : SUBSET Nat, rem : SUBSET Nat]

Copies == [serial : Nat, recs : SUBSET Records, axfr : BOOLEAN, gap : BOOLEAN]

(* Every variable has its type; a check that is set knows the serial it is *)
(* to confirm.                                                             *)
TypeOK ==
    /\ content \subseteq Records /\ latest \in Nat /\ all \in Seq(Nat)
    /\ diffs \subseteq [from : Nat, to : Nat, op : {"remove", "add"}, rec : Records]
    /\ record \in [Peers -> Nat]
    /\ job \in Jobs /\ xfer \in [Peers -> Xfers] /\ check \in [Peers -> Checks]
    /\ gc \in GCs /\ peer \in [Peers -> Copies]
    /\ version \in [Serials \cup {0} -> SUBSET Records]
    /\ bounds \in (0..MaxCommits) \X (0..MaxDeletes) \X (0..MaxRestarts)
                    \X (0..MaxUnanswered) \X (0..MaxErrors)

Begun == {SerialOf(n) : n \in 1..commits}

(* Records that no serial begun since s has touched.                       *)
Settled(s) == {r \in Records : \A t \in Begun :
                  t >= s => (r \in version[t] <=> r \in version[s])}

(* A peer whose transfers read all they asked redis for has the zone of    *)
(* the serial it was given, but for records that a later serial touches    *)
(* and the next IXFR will put right: although the hscan of an AXFR runs    *)
(* into commits, and an IXFR may list a serial that is not yet the latest. *)
PeerExact ==
    \A p \in Peers :
        peer[p].serial # 0 /\ ~peer[p].gap =>
            peer[p].recs \cap Settled(peer[p].serial)
              = version[peer[p].serial] \cap Settled(peer[p].serial)

(* What is written down of a peer is never ahead of it: else the changes   *)
(* it still needs would be collected.                                      *)
RecordIsHonest == \A p \in Peers : record[p] <= peer[p].serial

(* The collection drops no list that a transfer to a peer whose record it  *)
(* has seen has still to read.                                             *)
GCSparesKnownPeers ==
    [][\A s \in Serials, p \in Peers :
          DropKeys(s) /\ gc.seen[p] # 0 =>
              \A i \in 1..Len(xfer[p].todo) :
                  s \notin {xfer[p].todo[i][1], xfer[p].todo[i][2]}]_vars

(* Every peer ends up with the last serial, through rejected IXFRs, broken *)
(* off transfers and restarts.                                             *)
CatchesUp == \A p \in Peers : <>[](peer[p].serial >= latest)

(* The lists do not grow for ever: once every peer that is known has the   *)
(* latest serial on record, all but it and the two before it go.           *)
OldSerialsGo ==
    <>[](\A p \in Peers : record[p] \in {0, latest}) => <>[](Len(all) <= 3)

(* "These peer nameservers stay in sync with CNS using (incremental) zone  *)
(* transfers and serve the same records it does" (man/src/cnsadm.md:58):   *)
(* between two commits a peer that has the latest serial has the zone.     *)
PeersServeTheSame ==
    \A p \in Peers :
        peer[p].serial = latest /\ job.stage = "idle" => peer[p].recs = content

(* "The latest serial the peer has copied from us is the same as the       *)
(* latest serial generated.  If this were not the case, there would be a   *)
(* note in the DRIFT column highlighting that this peer was behind"        *)
(* (docs/operator-guide.md:444): a peer is not shown as behind for ever    *)
(* when it is not.                                                         *)
DriftMeansBehind ==
    \A p \in Peers :
        (record[p] # 0 /\ record[p] < latest /\ peer[p].serial = latest)
            ~> (record[p] \in {0, latest} \/ peer[p].serial # latest)

-----------------------------------------------------------------------------
(* Why the invariants hold (ZoneTransfer_proofs): what every step keeps.   *)
(* What a peer is being sent, or has answered, is on the right side of     *)
(* what it has, which never goes back.                                     *)
HonestInv ==
    \A p \in Peers :
        /\ record[p] <= peer[p].serial
        /\ xfer[p].stage # "none" => peer[p].serial <= xfer[p].serial
        /\ check[p].stage \in {"answered", "saved"} =>
              check[p].answer <= peer[p].serial

(* Of the types, what this needs.                                          *)
SerialsInv ==
    /\ latest \in Nat /\ commits \in Nat
    /\ "serial" \in DOMAIN job /\ job.serial \in Nat
    /\ record \in [Peers -> Nat]
    /\ DOMAIN check = Peers /\ DOMAIN peer = Peers /\ DOMAIN xfer = Peers
    /\ \A p \in Peers :
          /\ {"stage", "answer"} \subseteq DOMAIN check[p] /\ check[p].answer \in Nat
          /\ "serial" \in DOMAIN peer[p] /\ peer[p].serial \in Nat
          /\ {"stage", "serial"} \subseteq DOMAIN xfer[p] /\ xfer[p].serial \in Nat

IInv == SerialsInv /\ HonestInv

(* A transfer under way.                                                   *)
XferInv ==
    \A p \in Peers :
        /\ xfer[p].stage # "none" => xfer[p].serial # 0 /\ xfer[p].base = peer[p].serial
        /\ xfer[p].stage \in {"removes", "adds"} => xfer[p].todo # <<>>
        /\ xfer[p].stage = "none" => xfer[p].todo = <<>>

(* The serials of the zone: the committed ones, oldest first.              *)
Logged == {s \in Begun : s <= latest \/ (job.stage = "latest" /\ s = job.serial)}

ListInv ==
    /\ latest = SerialOf(IF job.stage = "idle" THEN commits ELSE commits - 1)
    /\ job.stage # "idle" => commits # 0 /\ job.serial = SerialOf(commits)
    /\ job.stage = "idle" => job = NoJob
    /\ \A i \in 1..Len(all) : all[i] \in Logged
    /\ \A i, j \in 1..Len(all) : i < j => all[i] < all[j]

(* The collection leaves the last serial below what a peer is known to     *)
(* have, and transfers start from there at the earliest.                   *)
GCInv ==
    /\ gc.latest <= latest
    /\ gc.stage # "drop" => gc.drop = {} /\ gc.rem = {}
    /\ \A p \in Peers : gc.seen[p] <= peer[p].serial
    /\ \A s \in gc.drop \cup gc.rem :
          /\ s < gc.latest
          /\ \A p \in Peers : gc.seen[p] # 0 =>
                \E i \in 1..Len(all) : /\ all[i] \notin gc.drop \cup gc.rem
                                       /\ s < all[i] /\ all[i] < gc.seen[p]

NoneBetween(s, base) == \A i \in 1..Len(all) : all[i] <= s \/ all[i] >= base

TodoInv ==
    \A p \in Peers : xfer[p].stage # "none" =>
        /\ xfer[p].base = 0 \/ xfer[p].base < latest
        /\ \A i \in 1..Len(xfer[p].todo), k \in {1, 2} :
              LET s == xfer[p].todo[i][k]
              IN  s >= xfer[p].base \/ NoneBetween(s, xfer[p].base)

SpareInv == TypeOK /\ XferInv /\ IInv /\ ListInv /\ GCInv /\ TodoInv

(* A commit: name by name the zone goes from the latest version to the     *)
(* next, and the lists between them say how they differ.                   *)
CommitInv ==
    /\ job.stage = "idle" => content = version[latest]
    /\ job.stage # "idle" =>
         /\ job.rms = version[latest] \ version[job.serial]
         /\ job.adds = version[job.serial] \ version[latest]
         /\ \A r \in Records :
              r \in content <=> IF r[1] \in job.names THEN r \in version[latest]
                                                      ELSE r \in version[job.serial]
    /\ job.stage = "latest" => job.names = {}

Differ(op, a, b) == IF op = "remove" THEN version[a] \ version[b]
                                     ELSE version[b] \ version[a]

Whole(op, a, b) == \A r \in Differ(op, a, b) :
                      [from |-> a, to |-> b, op |-> op, rec |-> r] \in diffs

DiffsInv ==
    /\ \A e \in diffs :
         /\ e.from \in Begun /\ e.to \in Begun /\ e.to = e.from + 2
         /\ e.rec \in Differ(e.op, e.from, e.to)
         /\ e.to # job.serial => \A op \in {"remove", "add"} : Whole(op, e.from, e.to)
    /\ latest # 0 /\ job.stage \in {"add", "names", "latest"} =>
          Whole("remove", latest, job.serial)
    /\ latest # 0 /\ job.stage \in {"names", "latest"} => Whole("add", latest, job.serial)

(* What has been read of a zone, or of the changes to it.                  *)
SoFar(x) ==
    /\ x.serial \in Begun /\ x.serial <= latest
    /\ \A r \in x.recs : r[1] \notin x.left
    /\ \A r \in Settled(x.serial) : r[1] \notin x.left =>
          (r \in x.recs <=> r \in version[x.serial])

Leading(sent) ==
    LET a == sent[1].from
        b == sent[Len(sent)].to
    IN  /\ a \in Begun /\ b \in Begun /\ a < b
        /\ \A r \in Records :
             /\ Added(r, sent) => r \in version[b]
             /\ ~Added(r, sent) /\ KeptFrom(r, 1, sent) =>
                  \A t \in Begun : a <= t /\ t <= b => (r \in version[t] <=> r \in version[b])
             /\ r \in version[b] => Added(r, sent) \/ KeptFrom(r, 1, sent)

ReadInv ==
    \A p \in Peers :
        LET x    == xfer[p]
            pair == Head(x.todo)
        IN  x.stage # "none" =>
              /\ \A i \in 1..Len(x.todo) : {x.todo[i][1], x.todo[i][2]} \subseteq Logged
              /\ \A i \in 1..(Len(x.todo) - 1) : x.todo[i][2] = x.todo[i + 1][1]
              /\ x.sent # <<>> /\ x.todo # <<>> => pair[1] = x.sent[Len(x.sent)].to
              /\ x.stage \in {"list", "scan"} => x.sent = <<>>
              /\ ~x.gap =>
                   /\ x.stage \in {"list", "scan"} => SoFar(x)
                   /\ x.stage = "sent" /\ x.sent = <<>> => SoFar(x) /\ x.left = {}
                   /\ x.stage = "adds" => /\ pair[2] = pair[1] + 2
                                          /\ x.recs = Differ("remove", pair[1], pair[2])
                   /\ x.sent # <<>> => Leading(x.sent)

CopyInv ==
    \A p \in Peers : peer[p].serial # 0 /\ ~peer[p].gap => peer[p].serial \in Begun

ExactInv == SpareInv /\ CommitInv /\ DiffsInv /\ ReadInv /\ CopyInv /\ PeerExact

=============================================================================
