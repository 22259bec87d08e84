# A TLA+ model of Triton CNS

Triton CNS keeps the DNS names of virtual machines. One process,
**cns-updater** (`updater.js`), learns of VMs and writes zones to redis;
another, **cns-server** (`server.js`), serves the zones to clients and, by zone
transfers, to secondary name servers ("peers"). The two share nothing but redis.
This directory models how a change gets from VMAPI into a zone and from there to
every peer, and model-checks it with TLC. What may never go wrong (the
invariants, one action property, one refinement) is also proved with TLAPS, for
every size of the system; what must happen in the end is model-checked only.

    tlc -config us_main.cfg MCUpdateStream     # any run: config and module as below
    tlapm UpdateStream_proofs.tla              # any *_proofs module

## 1. The system

### Components

| Component | State it keeps | Operations | Correct when |
|---|---|---|---|
| **UpdateStream** (`lib/update-stream.js`) | open serial and its timer, a busy lock with listeners of `done`, a builder per zone, `vmsToCommit` | `openSerial`, `closeSerial`, `_write`, timer, commit | no change is lost, halved or orphaned; serials increase |
| **Zone builder** (`lib/zone-builder.js`) | removals and additions of one zone for one serial | `list`, `add`, `remove`, `set`, `commit` | the zone in redis is a log: each version follows from the one before by the change that IXFR serves |
| **Zone transfer** (`lib/dns-server.js`) | a transfer per request | AXFR, IXFR, `makeSOA` | a peer has the zone of the serial it was given |
| **Peer checks** (same) | `checkTimers`, `peer:<address>` in redis | SOA query after a transfer, record what the peer has | the record is never ahead of the peer, and not behind for ever |
| **Collection of old serials** (same) | none between runs | `garbageCollect`, `dropSerial` | never takes changes a known peer needs; the lists do not grow for ever |
| **NOTIFY and blacklist** (same) | `notifyFailures`, `unblacklistTimers`, the loop's timer | `checkAndNotify`, `notify`, `startUnblacklist` | a peer that is behind is notified, one that confirms transfers does not stay blacklisted, and no redis connection is lost |
| **Queries** (same) | none | `handleQuery` | pure reads |
| **Reaper** (`lib/reaper-stream.js`) | an FSM, the list of VMs left, `reaped` in redis | scan, check, push, forget a VM | a destroyed VM's records go before its key does |
| **Poller** (`lib/poller-stream.js`) | page position, filter queue | `start`, `fetch` | every active VM is seen; `pollFinish` ends the poll that was asked for |
| **AppFSM** (`updater.js`) | which source of changes is in use | changefeed, fallback, first polls | the first serial has every VM |
| **CN filter** (`lib/cn-filter.js`) | servers known, VMs that wait for the first list, fake VMs to be fed in | refresh, poll the VMs of a server that changed | a server that goes down is taken out of the services, each has its own name |
| **UFDS filter, watcher, pool** | cache of users, last change number | look up, invalidate, poll | a change of a user reaches all his VMs |
| **Network filters** | two caches of a minute, a list of pools of ten | lookups for the nics of a VM | names follow what NAPI says |
| **Flag filter, VM to zones** | none | list or not, under which names | names that records point to exist; a name tells whether its records carry a `src` |
| **HTTP API** (`lib/api-server.js`) | none | list VMs and peers, delete a peer | a deleted peer is forgotten |
| **DNS clients, config, helpers, cnsadm** | none | probes, parsing, `nextSerial`, `recSetDiff` | |

### How they interact

```
 VMAPI -> poller | changefeed | reaper -> CN, UFDS, network, flag filters
                                             |
                                        UpdateStream -> Zone builders
                                             |  commit
                                           redis
                                             |  read
       peers  <- NOTIFY / AXFR / IXFR -  cns-server  - HTTP API
         |                                   |
         +---- SOA answers, transfers ------>+ peer:<address>, collection
```

The filters are object streams with back pressure; AppFSM calls
`openSerial(false)` and `ps.start()`, and `closeSerial()` on `pollFinish`. The
UFDS watcher and CN filter feed back into the poller. In redis the updater
writes, per zone, `zone:<z>` (a hash from name to records), `zone:<z>:latest`,
`zone:<z>:all` (the list of serials), `zone:<z>:<from>:<to>:add|remove`, and
`nsrecs:<z>:<serial>`; per VM, `vm:<uuid>` with `last_recs`, `last_visit`,
`reaped`. The server writes `peer:<address>` and deletes old change lists.

### What is hard

Everything is single-threaded JavaScript, so the races are between *turns* of
the event loop and between the two processes: writes, a timer and the end of a
poll that all wait on one `done` event and run in one turn; a commit of several
redis commands per zone, zones and names in parallel, that the server reads in
the middle of; a collection that deletes what a transfer is about to read; a
crash between any two commands; timers that survive the situation that set
them. `PROJECT.json` lists these hazards at their lines, with the property that
covers each, or what is left to do.

## 2. Modules

| Module | What it is |
|---|---|
| `UpdateStream` | the updater's last stage and the zone builders, one action per turn of the event loop |
| `ZoneLog` | abstract: what the updater promises readers of a zone, crashes included |
| `MCUpdateStream` | a small updater: two zones, two VMs, a shared service name, a contested alias |
| `UpdateStream_proofs` | types, `OwnRecordsExact`, `NoPartialCommit`, `NoOrphans`, `WrittenIsPending` |
| `UpdateStreamLog_proofs` | `ServedSerialHasNS`, `ReportedIsTaken`, and that `UpdateStream` implements `ZoneLog` |
| `ZoneTransfer`, `MCZoneTransfer`, `ZoneTransfer_proofs` | one zone, its commits, transfers to peers, peer checks, collection; types, `RecordIsHonest`, `GCSparesKnownPeers`, `PeerExact` |
| `PeerWatch`, `MCPeerWatch`, `PeerWatch_proofs` | NOTIFYs, the blacklist, checks and the HTTP API on one pool of connections; types, `NoLeak`, `BlacklistEnds` |
| `RedisPool` | that pool |
| `Reaper`, `MCReaper`, `Reaper_proofs` | the reaper, with the pipeline and the update stream it depends on; types, `NeverSkipped`, `LosesNothingElse` |
| `Updater`, `MCUpdater`, `Updater_proofs` | the poller, the changefeed and AppFSM: where VMs come from; types, `PollSeesAll` |
| `Lookups`, `MCLookups`, `Lookups_proofs` | users and servers: the caches of the CN and UFDS filters and what invalidates them; types, `StaleUserIsPending`, `StaleServerIsPending` |
| `VmZones`, `MCVmZones`, `VmZones_proofs` | the network filters and their caches, the flag filter, and the records of a VM; types, `TargetsResolve` |

Definitions keep the names of the code. A definition marked *Mutant* is a
plausible slip in the definition that follows it; replacing the one by the
other makes a property fail, which shows that the property watches that code.

### UpdateStream

*State.* `serial`, `timer`, `busy`, `vmsToCommit` are the fields of that name.
`busy` also says what it guards. `deferred` is the listeners of `done` on
`this.busy`; `turn` is the ones the current `emit('done')` has still to call,
and while it is not empty nothing else runs (`Quiet`): `emit` is synchronous.
`rms` and `adds` hold those of all builders together, `opened` and `from` the
zones that have one and the serial each starts from. `write` and `job` are the
closures of the write and of the commit under way. `content`, `latest`, `all`,
`ixfr`, `lastRecs`, `nsrecs` are redis. For the properties only, `all` keeps with each
serial the content the zone had, the number of crashes until then and whether the
commit began *early*, that is in the tick its serial was opened in; `reported`,
`finished` and `cut` are history.

*Actions.* `Write` is the call of `_write`; `FetchLastRecs` the answer to `hget
last_recs`; `RemoveEntries` and `SetEntries` the two halves of the update of
builders, where the code awaits redis in between; `SetEntries` also ends the
write with `_busyDone`. `TimerFires`, `PollStart` and `PollDone` are the three
who open and close serials; when the stream is busy they listen for `done`, and
`RunListener` is such a listener being called. It has the four outcomes of the
code: go on, wait again, or find the serial changed and report success.
`PushRemoves`, `PushAdds`, `CommitName`, `PushAll`, `SetLatest` are the redis
commands of `Zone.commit`; `StartVMRecords`, `SaveVMRecord`, `SaveNSRecords` and
`FinishCommit` the rest of `closeSerial`. `Crash` is the process dying, by a
signal or by the `error` event of a failed commit, which nothing listens for.

*Abstractions.* Records are values with a zone, a name, what they say and the
`src` they carry. `Wants` gives the sets of records `buildZonesFromVm` may
produce for a VM; the two assumptions on it are what that function guarantees.
`rmEntries` and `setEntries` await redis per name: each is one action, because
the busy lock keeps every other reader and writer of the builders out, and the
lists of zone contents they read change only in a commit, which the lock keeps
out too. `last_visit` is left out.

### ZoneLog

A zone is a sequence of versions with increasing serials; between neighbours, a
change that turns one into the next exactly; a version is announced after it is
logged, and the next one not logged before that. A version that was logged early
may be followed by another with the same serial (`Repeats`): a serial is the number
of the current tick plus one, and nothing keeps one from being opened, committed
and opened again within the tick. Of the list from a serial to itself nothing is
promised, and from the last version of the serial on all is exact. When the writer dies
(`crashed[z]`) the last version may remain without its announcement, and the next
may be one to which its change does not lead: the process died between the
records of a zone and the list of its serials. From that version on all is exact
again. If it dies before an early version is announced, the same version may be
logged again, and its change grow (`Amend`). `UpdateStream!ZonesAreLogs` instantiates it: `log <- all`,
`announced <- latest`, `crashed <- Torn` (the process has died since the zone's last
version), and `change` is read from the lists IXFR serves. `ZoneTransfer` starts from
the same commit steps.

### ZoneTransfer

*State.* redis as above for one zone, `record` for `peer:<address>`; `xfer`,
`check` and `gc` are the closures of `handleTransfer`, `doPeerChecks` and
`garbageCollect`; `check[p]` is not `NoCheck` exactly while `checkTimers` has an
entry. `peer` is the copy a peer has. `version` remembers what the zone was at
each serial. Serials are even numbers, so that odd ones are clock ticks between
two commits.

*Actions.* `StartJob` to `SetLatest` are the commit. `Ask` is a request together
with the SOA read; `ListSerials` the `lrange` that decides between changes and the
whole zone (`Chain` is the loop over serials); `ReadRemoves` and `ReadAdds` the two
reads of each change; `ReadName` one name of the `hscan`; `ReadFails` a read that
fails, which the code counts as empty or complete. `PeerTakes` is the peer.
`PeerAnswers`, `NoAnswer`, `SaveSerial`, `CheckDone` are a peer check;
`ReadZones`, `ReadPeers`, `Collect`, `DropKeys`, `RemSerial` a collection;
`DeletePeer` the API call; `Restart` the server dying.

*Peers* are not part of CNS. They follow RFC 1995 and 5936: a peer takes an
IXFR that leads from its own serial to the one announced, refuses any other and
asks for an AXFR next; adding a record that is there or removing one that is
not is no error. `ApplyAll` says at once what taking the steps one after the other
gives: what a step adds or the peer had, and no later step removes. That it is
the fold over the steps is an `ASSUME` of `MCZoneTransfer`, for up to two steps with
any records of the instance.

### Reaper

*State.* `fsm.stage` is the FSM's state, with `checkReaped` in its three parts
(`reaped`: the first read, `recs`: the second, `forget`: its answer) and
`fetchAndPush` in two (`fetch`, `push`); `vm`, `remaining`, `retries` are its
fields, `scanned` the cursor, `val` what the last read gave. `visit`, `recs` and
`reaped` are the fields of the redis hash `vm:<uuid>`, which exists as long as one
is set. `lost` is history: VMs whose key was deleted at the wrong moment. Each VM has at most one record, so `last_recs` is null, `{}` or
something, and `content` the set of VMs with a record.

*Actions.* One per state of the FSM, or per redis answer where a state awaits
two; `ListFails` and `CheckFails` are errors and timeouts. `Awake` is both sleeps. `Wake` is
the timer of `state_idle` or the pipeline asking for more: `_read` calls
`start()`, so a round may begin before the objects of the last are through.
`Drop` is a filter dropping an object. `BeginWrite` to `SaveVMRecords` are the
update stream in five steps, each standing for several actions of
`UpdateStream`; it keeps the order of `last_visit`, the read of `last_recs`,
`vmsToCommit`, zones and `last_recs` saved. `Crash` loses all but redis.

*Abstractions.* The number of retries is 2 in the run instead of 3. `last_visit` is
fresh or old; it ages (`Age`) only when nothing of the VM is under way and the reaper
is not about to forget it, since an hour is longer than any object takes, a serial
stays open and the reads of the reaper, which time out after a second, last. That
an object may take longer than a *round* is kept.

*What the deletion may lose.* A key is deleted on the answers to three reads. The
code does nothing to keep a write of the VM from beginning between them
(`BeginWrite` does not look at the reaper), and takes an error of the last read for
"empty" (`LastRecsFails`). Both are in all runs. `Wrong` names the two; a VM whose key
goes in such a state is in `lost` until it is visited again, and `NeverSkipped`,
`LosesNothingElse`, `Backstop` and `Forgotten` leave it out, each no longer than
that. What the comment in the code claims, without these exceptions, is
`ThrowsAwayOnlyEmpty`, which `rp_race` refutes.

### Updater

*State.* `ps` has the fields of `PollerStream`; `pos` is `marker` or `offset`,
whichever `useMarker` says. `page` is the answer of VMAPI on its way. `app` is
the state of `AppFSM`, `changes` what the changefeed's listener holds, `psQ` and
`cffQ` what poller and changefeed filter have pushed. `due` and `asked` are history:
VMs the poll in progress must still find, and filters that no poll has begun for
since they were asked for.

*Actions.* `Start` is `start()`, as a function of the poller, since it is called
from inside four handlers. `Fetch` is VMAPI evaluating the request, `HandlePage`
and `PollFinish` the handling of a page and of an empty one; the latter emits
`pollFinish`, on which AppFSM moves, and then starts the next filter.
`Bootstrap`, `FeedError` and `PollTimer` are the events of AppFSM. `Ask` is a
watcher calling `start(f)`. `Move` and `LoseFeed` are the world.

*Abstractions.* The filters and the update stream are one step, which makes a VM
served or not. `piped` is not a variable: the changefeed flows in `cfRunning`
only. `Rest` is what VMAPI has to list, `Fetch` takes the one page that lists the
first `limit` of it by uuid. The changefeed listener is not under `src/`: it is
taken to emit `bootstrap` each time it registers and to lose changes in between.

*An assumption.* `Calm` says that the changefeed registers only while no poll
runs and is not lost during a first poll, and that no object is dropped. Without
it `AllServed` fails (`Calm = FALSE` in `up_main`): `ps.start()` does nothing
while the poll of a filter runs, whose end is then taken for the end of the
first poll, and a VM created while the changefeed was away is never found.

### PeerWatch and RedisPool

*State.* `failures` and `unblacklist` are `notifyFailures` and the keys of
`unblacklistTimers`; `sent` counts NOTIFYs without an answer; `loop`, `xfer`,
`check` and `req` are the closures of `checkAndNotify`, a transfer, `doPeerChecks` and a
request of the HTTP API, each with the place it has got to. `record` is
`peer:<address>`, `has` what the peer has. A serial is the latest one or an old one,
which lets zones change for ever. `RedisPool` has the connections that are out
(`held`) and the claims that wait, in order, each named for its owner, so that
`NoLeak` can compare them with the owners still under way. `earned` is history.

*Actions.* `WakeLoop` to `Collected` are the loop, with its two error paths;
`NotifyOk`, `NotifyFails` and `Forgive` the answers to NOTIFYs and the timer that
ends a blacklisting; `Ask` to `XferFails` a transfer, which claims a connection
before it reads; `CheckTimer` to `CheckFails` a check, which arms `Forgive` before
it saves the serial and asks for the peer's version; `StrayDatagram` a datagram
that clears the timer of a query that will have no answer; `StartReq` to `ReqFails`
the API, whose GET of peers holds two connections. `Restart` includes an error
that `server.pre` throws.

### Lookups

*State.* `count` is UFDS's change number, `userAt` the one that made the owner's flags
what they are, `replacedAt` the latest of those that replaced one; a copy of the
user is such a number. `lastSerial`, `cache`, `servers`, `fsm`
have the names of the code; `fetches` and `lookup` are requests to UFDS under way,
`polls` the polls asked of the poller, `queued` and `stream` the objects before and
behind the CN filter. `missed` remembers that a change was lost in one of the ways
the code has for it: before the first check of the watcher, by a fetch that
failed, by a fetch among whose changes no flag was replaced (`processEntry` counts
no other modification: one that adds or deletes a flag leads neither to `cache.del`
nor to a poll), by a search answered after the watcher had cleared the cache, or with a
VM that was dropped.

*Actions.* `Check` and `FetchAnswer` are the watcher; `TransformVM`, `WaitForServers`,
`GotServers`, `UpdateFails`, `UpdateTimer` and `Drip` the CN filter;
`CacheHit`, `Search`, `SearchAnswer`, `Drop`, `Expire` the UFDS filter; `Arrive` a VM
from the changefeed or the reaper. Change numbers are compared as the strings
they arrive as (`TextLess`).

*Abstractions.* One VM, one user, one server. A check of the watcher is one step.
Flags of the user are one thing that changes.

Read while modelling: the comment above `makeFakeVM` (`cn-filter.js:292`) counts on
fake VMs being made periodically, but they are made when a server's state
changes; the one above `cutServerObj` describes other limits than the code has.
Neither is a property of the system, and neither has a run.

### VmZones

*State.* `vm`, `nets`, `pools`, `nics` are VMAPI and NAPI. `nicCache`, `netCache` and
`poolCache` are the three caches, `obj` the VM on its way, with what the filters have
put on it, and `served` the records it was last given.

*Actions.* `Visit`, `FixNic`, `Annotate`, `Info` and `Write` are a VM passing
`NAPILegacyFilter`, `NetPoolFilter` and `NetFilter`, `NetworkInfoFilter`, and
`FlagFilter` with `buildZonesFromVm`. `known` says that the VM has been written at some
time, so that redis has its key and the reaper visits it (`Revisit`): the only visits
that are sure to come, since a new VM that is dropped on its first is fetched again
only if it changes or a poll lists it. `Fails` and `Drop` a request that failed, which
is noticed when the others have been answered. `UpdatePools` is the list of pools
arriving, by the timer or for a VM that waits for the first one; `OtherVM` another VM
filling the cache of networks.

*Operators.* `ListInstance` and `ListServices` are the outcome of the flag filter,
`NicZones` that of the network filter, `Records` what `buildZonesFromVm` makes of a
VM. Names are records of labels, `dnsify` is the constant `Dns`, and of the length of
names only what is compared remains (`Long`, `Rank`). Records are sets: the code
may put the same address twice under a name, when a zone lists both a network
and its pool.

*Assumptions.* `NetsMayGo` is FALSE in the run: NAPI keeps the networks and nics of a
destroyed VM. If it does not, `NamesFollow` fails: a request that NAPI answers
with 404 is an error like any other, the VM is dropped at every visit, and the
reaper, whose objects take the same way, cannot remove its names. A nic has
addresses; on one that has none the code throws. One VM passes at a time: the
pipeline keeps the order of objects.

## 3. Runs

| Run | Expectation | Properties |
|---|---|---|
| `us_main` | pass | `TypeOK`, `OwnRecordsExact`, `NoPartialCommit`, `NoOrphans`, `ReportedIsTaken`, `DirtyIsCommitted`, `WaitingWriteRuns` |
| `us_crash` | pass | `ServedSerialHasNS`, `WrittenIsPending`, `ZonesAreLogs` |
| `zt_main` | pass | `TypeOK`, `PeerExact`, `RecordIsHonest` |
| `zt_live` | pass | `GCSparesKnownPeers`, `CatchesUp`, `OldSerialsGo` |
| `zt_same` | violated | `PeersServeTheSame` |
| `zt_drift` | violated | `DriftMeansBehind` |
| `pw_main` | pass | `TypeOK`, `NoLeak`, `BlacklistEnds`, `QueriesAreServed`, `BehindIsNotified`, `Forgiven` |
| `rp_main` | pass | `TypeOK`, `NeverSkipped`, `LosesNothingElse`, `Backstop`, `Forgotten` |
| `rp_race` | violated | `ThrowsAwayOnlyEmpty` |
| `up_main` | pass | `TypeOK`, `PollSeesAll`, `AskedIsPolled`, `AllServed` |
| `lk_main` | pass | `TypeOK`, `StaleUserIsPending`, `StaleServerIsPending`, `ChangesAreServed`, `VisitsRepair`, `ServerIsListed` |
| `vz_main` | pass | `TypeOK`, `TargetsResolve`, `NamesFollow` |

**What the passing runs show.**

* `us_main`: no interleaving of writes, timers, polls and commits loses a VM's
  change, commits half of it or takes another VM's record of a shared name; no
  record is left without a VM that will remove it; every change is committed,
  every waiting write runs, and who is told that a serial is closed has its
  changes taken by a commit.
* `us_crash`: over several serials, with a death at any step and a poll that ends in
  the tick it began in, each zone is a log as `ZoneLog` has it, the serial it
  announces has its NS records, and the next write of a VM supersedes what the
  crash left.
* `zt_main`: a peer that follows has the zone of its serial up to what a later
  serial touches, and the record of a peer is never ahead of it.
* `zt_live`: peers catch up through refused IXFRs and restarts, old serials go, and
  no change goes that a known peer is reading.
* `pw_main`: whatever fails, connections come back, the loop goes on and
  notifies peers that are behind, and a peer that transfers is not blacklisted
  for ever, whatever NOTIFYs fail late.
* `rp_main`: whatever is dropped, late, failing or lost with the process, the
  records of a destroyed VM leave DNS and its key goes, in that order; the only keys
  that go too soon are those of `Wrong`.
* `up_main`: a poll by markers finds every VM that is there from its start to its
  end, no request for a poll is lost, and every active VM is served whichever
  source is in use.
* `lk_main`: a stale user or server is one that will be dealt with, changes reach
  the zones without help from outside unless one was missed, and then visits and
  the expiry of caches repair it.
* `vz_main`: SRV and PTR records point to names with addresses at all times, and
  when the world rests the zones have what it calls for, if the VM has been written
  at all.

**What the others show.** Three places where the code does not do what a comment
or document says; the findings in `PROJECT.json` quote them.

* `zt_same`: `makeSOA` falls back on the clock while a zone has no latest serial.
  A peer that transfers during the first commit gets that commit's serial
  without its records, and never receives them.
* `zt_drift`: a transfer that ends while the check of the one before it is
  waiting finds the timer set and is not checked. The peer is shown as behind,
  is notified every interval and holds the collection back until the zone
  changes again.
* `rp_race`: the reaper has read that a VM's records are gone, a write of that VM
  begins, and the reaper deletes the key. The records get into the zones, and the
  key, without `last_visit`, is one the reaper skips for ever.

**Bounds.** `MaxTick` (2 or 3) stops the clock; a serial is open for one tick,
so three ticks give three serials and both changes between them. `MaxDeferred`
(2) bounds only the closers a poll adds while others wait: one write, one timer
and one poll can wait at once, which is what the races need. `MaxCrashes` is 1:
two crashes without a completed commit in between leave what one leaves.
`us_main` has two VMs, enough for a shared name and a contested one; `us_crash`
one VM that moves between names, which allows the longer history. In `zt_main` three commits give an AXFR, an IXFR of one change and
one of two; `zt_live` needs four, since a collection keeps the last two serials
below the minimum and so does nothing before the fourth. One peer is enough:
peers meet only in the minimum of their serials (`Needed`, `Old`). `MaxErrors`, `MaxUnanswered`,
`MaxRestarts`, `MaxDeletes` are 0 or 1 each, split between the two runs.
`rp_main` has one VM, since the FSM looks at one at a time and VMs share nothing but
the pipeline; two objects of other sources, beside the reaper's own two, let an
old one arrive last; `MaxFaults` (2) counts drops, failures and deaths together,
enough to run out of retries or to meet a fault while recovering from one. In
`up_main` two VMs fill more than one page when the stream holds one object, two
requests of the same filter are what deduplication is about, and two faults allow
the changefeed to fail while it recovers. Only one VM may be destroyed (`Mortals`).
With `ProbeSays = {FALSE}`, paging by offset, `PollSeesAll` fails: a VM is
destroyed between two pages and the next one moves up.
`pw_main` has one peer, one request and a pool of three; two NOTIFYs in flight and a
limit of one failure put a late failure behind the blacklisting; a third
connection is what `Fits` asks for with one request and one fault. In `lk_main` two
changes, of user or server, meet one fault; it starts with a server that is up
and numbers of two digits, or with no server and a number about to gain one
(`MCStarts`). `vz_main` has two nics, two networks and a pool, so that a nic may change
zone by its network, by a pool and by neither; two changes, as one that arrives
while the other is half seen is what caches make hard; and VMs with a long
alias, a PTR tag, an admin's role, stopped and destroyed.
Deadlock is not checked: a model that has used up its bounds stops, and the
programs rest when there is nothing to do.

`MaxEarly` bounds the versions of a zone whose commit a poll begins in the tick it
opened the serial in: 0 in `us_main`, whose properties do not speak of serials, and
1 in `us_crash`, so that a serial is used twice with ticks to spare before and after.
`Callbacks` says whether `closeSerial` is passed a callback: both in `us_main`, none in
`us_crash`, as in `updater.js`. `Defaults` in `zt_live` is a serial from the clock between
those of the commits: a peer that took it has a serial that is never listed, and
catches up all the same.

**Assumptions on the environment.** `ZoneTransfer` has a clock serial given out (`Ask`) for a zone that has a serial only
when that serial is at most one ahead of it. `Fits`, `SameWidth`, `Calm` and `NetsMayGo`
are described with their modules; `PeerWatch!Fits` says that requests for
peers and hung checks, each of which holds a connection while it waits, leave one
free. Nothing in the code sees to it: with two such requests on a pool of two
everyone waits, with twelve on the pool of twelve as well.

**Fairness.** `UpdateStream`: weak fairness of redis' answers (`WriteStep`,
`CommitStep`), of the timer, of listeners (called in the same turn) and of the
end of a poll (the poller retries until a page is empty); `Tick` is strongly fair
because the bound `MaxTick` holds the last tick back while a write runs, so that
it is not continuously enabled. None on writes, the start of polls, or crashes.
`ZoneTransfer`: redis and peers answer, peers look at the SOA again and again
(their refresh timer), and the collection runs periodically; none on commits,
deletions, restarts or errors, all of which may stop.
`Reaper`: every state of the FSM has a timer or awaits an answer that has one
(`ReaperStep`), the update stream runs (`StreamStep`), time passes (`Age`); none on
other sources, so that `Backstop` does not lean on a notification. `Updater`: VMAPI
answers, timers fire, the pipeline flows, the changefeed registers again (its
listener retries for ever); none on what VMs and watchers do.
`PeerWatch`: the pool serves whom it can, redis and peers answer or time out,
timers fire; none on commits, requests or what peers ask; `Forgiven` states that the
peer goes on asking. `Lookups`: timers, answers and streams, but not `Arrive`, so
that `ChangesAreServed` does not lean on a notification; `VisitsRepair` states that
VMs arrive. `VmZones`: a VM that has been written is visited again (`Revisit`), which
`Reaper` sees to, answers come, entries of caches expire; none on first visits,
changes or faults.

## 4. Proofs

All are for every value of the constants that satisfies the named assumptions of
the modules. Each rests on invariants that stand at the end of the module (those
of the log in `UpdateStreamLog_proofs`) with the reason for each part.

* `UpdateStream_proofs`: `Spec => []TypeOK`; `[]OwnRecordsExact`, `[]NoPartialCommit` and
  `[]NoOrphans` if `MaxCrashes = 0`; `[]WrittenIsPending` whatever crashes.
  `OwnRecordsExact` compares what is *pending* in the zones (redis, then the job's
  changes, then the builders') with what the VM is *recorded* to have (in
  `vmsToCommit`, else the job, else redis). A commit moves both along, so it is not
  inductive by itself. `SafeInv` holds through crashes: `busy` tells truly which of
  write and commit runs (`Lock`), no builder is dirty without an open serial or
  during a commit (`BuildersHaveSerial`), a write with something to do has opened
  one (`WriteHasSerial`), names the job has dealt with hold what they should
  (`JobProgress`), a VM's records are never in two of the places that count
  (`RecordsMove`), and all of them were once to be given to it (`OnlyGiven`). `ExactInv`
  holds until the first crash: the write under way knows what the VM had and has
  removed exactly the names it drops (`WriteProgress`). `Owned` leaves aside the names
  several VMs may be given, for which the statement is false: there the last
  writer wins. `NoOrphans` has no such exception. A crash makes both false, since
  zones and `last_recs` are saved one after the other; `WrittenIsPending`, about the
  VMs written since, needs `SafeInv` only.
* `UpdateStreamLog_proofs`: `[]ServedSerialHasNS` and `ZonesAreLogs`, crashes and serials
  closed in their own tick included; `[]ReportedIsTaken` if `MaxCrashes = 0`. Serials
  never go back because one that is open or awaited is due (`SerialsDue`) and one
  that was used lies behind the clock, the open serial and the job's, or is equal to
  them when its commit began early (`SerialsUsed`). For the refinement: the lists hold
  exactly the job's changes as far as its steps have come (`IxfrPushed`), a builder
  starts from the announced version (`FromLatest`), and a zone without a crash since
  its last version is that version, name by name overtaken by the job
  (`ZoneIsVersion`). Every step of `UpdateStream` is then a step of `ZoneLog` or none:
  `PushAll` publishes, `SetLatest` announces.
* `ZoneTransfer_proofs`: `[]TypeOK`, `[]RecordIsHonest`, `GCSparesKnownPeers` and
  `[]PeerExact`. The record is written two answers after the transfer; what makes it
  safe is that a peer never goes back, a transfer never gives less than the peer
  has, and an answer to a check is no more than it has (`HonestInv`). The collection
  leaves the greatest serial below what each known peer has (`GCInv`), and a transfer
  reads no list from before the serial its peer has, but for one that ends there
  (`TodoInv`). `PeerExact` is about the records no later serial touches (`Settled`):
  while a commit runs redis agrees with both of its serials on those (`CommitInv`);
  a list that is complete holds exactly the difference of its serials (`DiffsInv`);
  what has been read of a zone agrees with its serial on the names read (`SoFar`),
  and what has been sent of an IXFR says of each record whether the last serial
  has it, or leaves alone what none of them changed (`Leading`, which each further
  step extends).
* `PeerWatch_proofs`: `[]TypeOK`, `[]NoLeak`, `[]BlacklistEnds`. `NoLeak` needs that no claim
  is made twice and none is both granted and waiting (`Distinct`), and that what
  comes after a claim has the connection (`HoldInv`); the bound on failures counts
  those with the NOTIFYs under way (`FailuresInv`); a peer has earned its timer
  and lacks it only when it has no failures (`EarnedInv`).
* `Reaper_proofs`: `[]TypeOK`, `[]NeverSkipped`, `LosesNothingElse`, whenever writes begin
  and whatever reads fail. Records on their way to a key belong to a VM that was
  visited a moment ago or is lost (`RecordsAreRecent`); the reaper is about to forget
  only one that was visited once, and that has no records if it was not visited
  since and the reaper saw none (`SawTheOld`).
* `Updater_proofs`: `[]TypeOK`; `[]PollSeesAll` if `ProbeSays \subseteq {TRUE}`, that is
  when VMAPI has markers: by offset it is false. What a poll has yet to find lies
  after its marker, and what of it a page on its way does not list lies after the
  page (`DueInv`), however the limit shrinks and grows, requests fail and the stream
  is full; an empty page leaves nothing due.
* `Lookups_proofs`: `[]TypeOK`, `[]StaleUserIsPending`, `[]StaleServerIsPending`. Beside the
  properties themselves, which leave out what is in `missed`: before the first check only `early` tells that a change
  will be missed (`UserInv`), nothing passes the CN filter before its first update
  (`CacheInv`), and the zones follow the *cache* of servers, whatever CNAPI says
  (`ServerInv`).
* `VmZones_proofs`: `[]TypeOK`, which has it that a VM comes to `buildZonesFromVm` with
  what NAPI says of the network of each of its nics, whatever failed or was cached
  on the way (`Annotated`), and that all names and records are well formed;
  `[]TargetsResolve`, from lemmas about `Records` alone, whatever the
  caches say: a VM in services is listed as an instance, and its primary name is
  one of its names wherever it has an address. `SourceByName` says that a record's
  name tells whether it carries a `src`, and that the `src` is its VM, ACME challenges
  of all its names included: this is what
  `UpdateStream` assumes of `buildZonesFromVm` (`RecordsAssumption`,
  `WantsAssumption`).

Only model-checked: the liveness properties, since they rest on fairness and the
prover has no ENABLED, and `ApplyAllIsAFold`, which for any number of steps would
need induction over sequences, which the installed provers cannot instantiate.

Hypotheses. `MaxCrashes = 0` is in four theorems of `UpdateStream`, since after a crash
TLC finds their properties false. `ProbeSays` is what VMAPI supports, see section 3:
by offset TLC finds `PollSeesAll` false. No other theorem assumes more than the
modules' `ASSUME`s.

## 5. Not modelled

* *Queries* (`handleQuery`, `findZone`, CNAME and additional records): reads of redis
  that change nothing; their interleaving with a commit is the one `ZoneTransfer`
  has for transfers.
* *cnsadm*, parsing of configuration and tags, DNS messages and their sizes,
  logging, version probes beyond the connection they hold: no state that another
  part depends on.
* *Redis errors that a write or a commit goes on after* (`update-stream.js:348`,
  `zone-builder.js:309`): nothing in the code makes up for them, see the hazards.
* *NS records in transfers; several zones per peer*, which are independent but for
  the key of the record and the count of failures; *IPv6 peers*: their keys in redis
  have more than two parts (`dns-server.js:988`) and the server passes them over, so
  that they are not notified, not listed and not spared by the collection.
* *The end of a poll against the pipeline*: `pollFinish` follows the last page at
  once, so the first serial may be closed with VMs still under way
  (`updater.js:145`); `AllServed` says only that they come with a later serial.

What would come next: `ZoneTransfer` reading the log of `ZoneLog` with its crashes,
in place of commits of its own.
