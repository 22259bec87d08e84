------------------------------ MODULE VmZones ------------------------------
(***************************************************************************)
(* From a VM to its DNS records: the filters that ask NAPI which networks  *)
(* its nics are on (NAPILegacyFilter, NetPoolFilter, NetFilter and         *)
(* NetworkInfoFilter, with their caches), the FlagFilter, and              *)
(* buildZonesFromVm, whose records UpdateStream writes.                    *)
(*                                                                         *)
(* Nothing tells the updater that a network or a pool has changed: names   *)
(* follow at the next visit of the VM after the caches have aged.          *)
(*                                                                         *)
(* One VM.  Its owner and server are taken from the record: how they come  *)
(* to be in it, and age, is the subject of Lookups.                        *)
(***************************************************************************)
EXTENDS Integers, FiniteSets

CONSTANTS
    Zones,              \* forward_zones
    Networks,           \* Networks[z]: what the zone lists of Nets, Pools, "*"
    Rank,               \* Rank[z]: which zone a PTR prefers, the one of the
                        \* shorter name and then the first in the config
    UseAlias, UseLogin, \* use_alias, use_login
    Nets, Pools, Macs,
    VM, Owner,          \* the uuids of the VM and of its owner
    Dns,                \* dnsify
    Long,               \* aliases and logins of 63 characters or more
    NetNames,           \* names of networks
    Inputs,             \* what VMAPI, CNFilter and UfdsFilter may say of it
    Guess,              \* Guess[m]: the only network of the tag and VLAN of a
                        \* nic, or None
    Start,              \* the VM, networks, pools and nics to begin with
    NetsMayGo,          \* environment: whether NAPI forgets what a destroyed
                        \* VM was on
    MaxChanges,         \* bound: changes in VMAPI and NAPI
    MaxFaults           \* bound: failing requests and restarts

None == "none"
Undefined == <<>>
Gone == [name |-> None, owned |-> FALSE]
Infos == [name : NetNames, owned : BOOLEAN]

Nics == [net : Nets \cup {None}, tag : STRING, ips : SUBSET STRING]

IsVM(v) ==
    /\ DOMAIN v.nics \subseteq Macs
    /\ v \in [alias : STRING, login : STRING, approved : BOOLEAN, state : STRING,
               down : BOOLEAN, status : STRING, disabled : BOOLEAN, ptrname : STRING,
               svcs : SUBSET [name : STRING, ports : SUBSET STRING],
               smartdc_role : STRING, manta_role : STRING,
               challenges : SUBSET STRING, nics : [DOMAIN v.nics -> Nics]]

ASSUME VmZonesAssumption ==
    /\ {MaxChanges, MaxFaults} \subseteq Nat
    /\ "arpa" \notin Zones /\ None \notin Nets \cup NetNames \cup {VM} /\ Nets # {}
    /\ {UseAlias, UseLogin, NetsMayGo} \subseteq BOOLEAN
    /\ Guess \in [Macs -> Nets \cup {None}]
    /\ Start.vm \in Inputs
    /\ Start.nets \in [Nets -> Infos]
    /\ Start.pools \in [Nets -> SUBSET Pools]
    /\ Start.nics \in [Macs -> Nets \cup {None}]
    /\ \A v \in Inputs : IsVM(v)
    /\ {VM, Owner} \cup Zones \cup NetNames \subseteq STRING
    /\ \A s \in NetNames \cup {v.login : v \in Inputs}
                 \cup ({v.alias : v \in Inputs} \ {None}) : Dns[s] \in STRING

VARIABLES
    \* --- the world
    vm,                 \* the VM in VMAPI
    nets,               \* the networks in NAPI
    pools,              \* pools[n]: the pools network n is in
    nics,               \* nics[m]: the network of a nic in NAPI; None: no nic
    \* --- the caches
    nicCache, netCache,
    poolCache,          \* Undefined until the pools have been listed once
    \* --- the pipeline
    obj,                \* the VM on its way through the filters
    \* --- redis
    served,             \* the records the zones have of it
    known,              \* it has a key, as it has got as far as _write
    \* --- bounds
    changes, faults

world  == <<vm, nets, pools, nics>>
caches == <<nicCache, netCache, poolCache>>
store  == <<served, known>>
vars   == <<world, caches, obj, store, changes, faults>>

-----------------------------------------------------------------------------
(* FlagFilter.                                                             *)

Services(v) ==
    v.svcs \cup {[name |-> r, ports |-> {}] :
        r \in {s \in {v.smartdc_role} : v.login = "admin" /\ s \notin {None, "nat"}}
              \cup {s \in {v.manta_role} : v.login = "poseidon" /\ s = "loadbalancer"}}

Off(v)        == v.disabled \/ v.state \in {"destroyed", "failed"}
Privileged(v) == v.login \in {"admin", "poseidon"} /\ Services(v) # {}
InService(v)  == v.status = "up" /\ ~v.down /\ v.state = "running"

ListServices(v) == ~Off(v) /\ (Privileged(v) \/ (v.approved /\ InService(v)))
ListInstance(v) == ~Off(v) /\ (Privileged(v) \/ v.approved \/ v.ptrname # None)

-----------------------------------------------------------------------------
(* NetFilter.  A nic on the admin network (VLAN 0) or on manta's is in no  *)
(* zone.                                                                   *)

NicZones(o, m) ==
    LET ids  == {o.net[m]} \cup o.pools[m]
        hits == {z \in Zones : ids \cap Networks[z] # {}}
    IN  IF o.vm.nics[m].tag \in {"admin", "manta"} THEN {}
        ELSE IF hits # {} THEN hits
        ELSE {z \in Zones : "*" \in Networks[z]}

-----------------------------------------------------------------------------
(* buildZonesFromVm.  A name is a record of the labels it is made of, None *)
(* where it has none; records that occur twice are one.  "A" is AAAA too,  *)
(* and reverse names are all in the zone "arpa".                           *)

Name(label, kind, owner) ==
    [acme |-> FALSE, net |-> None, label |-> label, kind |-> kind, owner |-> owner]

Rec(zone, name, type, text, src) ==
    [zone |-> zone, name |-> name, type |-> type, text |-> text, target |-> <<>>, src |-> src]

Pointer(zone, name, type, text, target, in, src) ==
    [zone |-> zone, name |-> name, type |-> type, text |-> text,
     target |-> <<target, in>>, src |-> src]

Aliases(v) == {a \in {v.alias} : UseAlias /\ a # None /\ a \notin Long}
Logins(v)  == {l \in {v.login} : UseLogin /\ l \notin Long}
Owners(v)  == {Owner} \cup {Dns[l] : l \in Logins(v)}
Labels(v)  == {VM} \cup {Dns[a] : a \in Aliases(v)}

(* Mutant: an alias that is too long for a name is taken all the same.     *)
PrimaryNameLong(v) ==
    Name(IF UseAlias /\ v.alias # None THEN Dns[v.alias] ELSE VM, "inst",
         IF Logins(v) = {} THEN Owner ELSE Dns[v.login])

(* What PTR and SRV records point to.                                      *)
PrimaryName(v) ==
    Name(IF Aliases(v) = {} THEN VM ELSE Dns[v.alias], "inst",
         IF Logins(v) = {} THEN Owner ELSE Dns[v.login])

(* In a catch-all zone, the owner of a network has names that tell it.     *)
WithNetwork(o, e, names) ==
    names \cup {[n EXCEPT !.net = Dns[o.info[e.mac].name]] :
                  n \in {x \in names : "*" \in Networks[e.zone] /\ o.info[e.mac].owned}}

ACME(o, e, names, src) ==
    {Rec(e.zone, [n EXCEPT !.acme = TRUE], "TXT", c, src) : n \in names, c \in o.vm.challenges}

(* An address that may be listed, and where; 'dhcp' and 'addrconf' are     *)
(* skipped.                                                                *)
Entries(o) ==
    UNION {[mac : {m}, zone : NicZones(o, m), ip : o.vm.nics[m].ips \ {"dhcp", "addrconf"}]
             : m \in DOMAIN o.vm.nics}

InstNames(o, e) ==
    WithNetwork(o, e, {Name(l, "inst", w) : l \in Labels(o.vm), w \in Owners(o.vm)})

InstName(e, n) == {Rec(e.zone, n, "A", e.ip, None), Rec(e.zone, n, "TXT", VM, None)}

AddInstance(o, e) ==
    (UNION {InstName(e, n) : n \in InstNames(o, e)}) \cup ACME(o, e, InstNames(o, e), None)

(* The first of the shortest names an address has.                         *)
AddReverse(o, e) ==
    LET name == Name(e.ip, "ptr", None)
    IN  IF o.vm.ptrname # None THEN {Rec("arpa", name, "PTR", o.vm.ptrname, None)}
        ELSE {Pointer("arpa", name, "PTR", None, PrimaryName(o.vm), f.zone, None)
                : f \in {x \in Entries(o) : x.ip = e.ip /\ \A y \in Entries(o) :
                           y.ip = e.ip => Rank[x.zone] <= Rank[y.zone]}}

SvcNames(o, e, s) == WithNetwork(o, e, {Name(s.name, "svc", w) : w \in Owners(o.vm)})
ShortNames(o, s)  == {Name(n, "short", None) : n \in {x \in {s.name} : o.vm.login = "admin"}}

SvcName(o, e, n) ==
    IF ListServices(o.vm)
    THEN {Rec(e.zone, n, "A", e.ip, VM), Rec(e.zone, n, "TXT", VM, VM)}
    ELSE {Rec(e.zone, n, "verifying", VM, VM)}

AddSRV(o, e, s) ==
    {Pointer(e.zone, n, "SRV", p, PrimaryName(o.vm), e.zone, VM)
       : n \in SvcNames(o, e, s), p \in {q \in s.ports : ListServices(o.vm)}}

AddService(o, e, s) ==
    LET names == SvcNames(o, e, s) \cup ShortNames(o, s)
    IN  (UNION {SvcName(o, e, n) : n \in names})
        \cup AddSRV(o, e, s) \cup ACME(o, e, names, VM)

Cmon == {Rec(z, Name(VM, "cmon", None), "CNAME", z, None) : z \in Zones}

EntryRecords(o, e) ==
    {r \in AddInstance(o, e) \cup AddReverse(o, e) : ListInstance(o.vm)}
    \cup (UNION {AddService(o, e, s) : s \in Services(o.vm)})

(* What UpdateStream makes of them: of a VM that is listed in no way it    *)
(* removes all there is.                                                   *)
Records(o) ==
    IF ~ListInstance(o.vm) /\ ~ListServices(o.vm) THEN {}
    ELSE (UNION {EntryRecords(o, e) : e \in Entries(o)}) \cup Cmon

-----------------------------------------------------------------------------
(* The world.                                                              *)

Idle == [stage |-> "idle"]

Init ==
    /\ vm = Start.vm
    /\ nets = Start.nets /\ pools = Start.pools /\ nics = Start.nics
    /\ nicCache = [m \in Macs |-> None] /\ netCache = [n \in Nets |-> Gone]
    /\ poolCache = Undefined
    /\ obj = Idle /\ served = {} /\ known = FALSE
    /\ changes = 0 /\ faults = 0

Change ==
    /\ changes < MaxChanges /\ changes' = changes + 1
    /\ UNCHANGED <<caches, obj, store, faults>>

(* Whatever of the VM changes; a destroyed VM stays so.                    *)
ChangeVM ==
    /\ Change /\ vm.state # "destroyed"
    /\ vm' \in Inputs \ {vm}
    /\ UNCHANGED <<nets, pools, nics>>

(* A network is renamed or given another owner, or deleted.                *)
ChangeNetwork(n) ==
    /\ Change
    /\ \E info \in Infos \cup {Gone} :
         /\ info # nets[n]
         /\ info = Gone => NetsMayGo /\ vm.state = "destroyed"
         /\ nets' = [nets EXCEPT ![n] = info]
    /\ UNCHANGED <<vm, pools, nics>>

ChangePools(n) ==
    /\ Change
    /\ \E P \in (SUBSET Pools) \ {pools[n]} : pools' = [pools EXCEPT ![n] = P]
    /\ UNCHANGED <<vm, nets, nics>>

(* A nic moves to another network, or goes with its VM.                    *)
ChangeNic(m) ==
    /\ Change
    /\ \E n \in (Nets \cup {None}) \ {nics[m]} :
         /\ n = None => vm.state = "destroyed" /\ (Guess[m] # None \/ NetsMayGo)
         /\ nics' = [nics EXCEPT ![m] = n]
    /\ UNCHANGED <<vm, nets, pools>>

-----------------------------------------------------------------------------
(* The filters.                                                            *)

Fault == faults < MaxFaults /\ faults' = faults + 1

Legacy(v) == {m \in DOMAIN v.nics : v.nics[m].net = None}

(* A VM is fetched, because it changed, in a poll or, once redis has a key *)
(* for it, by the reaper, and reaches NAPILegacyFilter: nics without a     *)
(* network are looked up, all at once.                                     *)
Visit ==
    /\ obj = Idle
    /\ LET cached == {m \in Legacy(vm) : nicCache[m] # None}
       IN  obj' = [stage |-> "nics", vm |-> vm, failed |-> FALSE,
                   todo |-> Legacy(vm) \ cached,
                   net  |-> [m \in DOMAIN vm.nics |->
                               IF m \in cached THEN nicCache[m] ELSE vm.nics[m].net],
                   pools |-> [m \in DOMAIN vm.nics |-> {}],
                   info  |-> [m \in DOMAIN vm.nics |-> Gone]]
    /\ UNCHANGED <<world, caches, store, changes, faults>>

Asking(stage, m) == obj.stage = stage /\ m \in obj.todo

(* getNic answers; of a nic NAPI does not know the network is guessed.     *)
FixNic(m) ==
    /\ Asking("nics", m)
    /\ LET net == IF nics[m] = None THEN Guess[m] ELSE nics[m]
       IN  obj' = [obj EXCEPT !.todo = @ \ {m}, !.net[m] = net,
                              !.failed = @ \/ net = None]
    /\ nicCache' = [nicCache EXCEPT ![m] = nics[m]]
    /\ UNCHANGED <<world, netCache, poolCache, store, changes, faults>>

(* NetPoolFilter and NetFilter, once the pools are known; then             *)
(* NetworkInfoFilter asks for the networks it has not kept.                *)
Annotate ==
    /\ obj.stage = "nics" /\ obj.todo = {} /\ ~obj.failed
    /\ poolCache # Undefined
    /\ obj' = [obj EXCEPT !.stage = "infos",
                          !.todo  = {m \in DOMAIN obj.net : netCache[obj.net[m]] = Gone},
                          !.pools = [m \in DOMAIN obj.net |-> poolCache[obj.net[m]]],
                          !.info  = [m \in DOMAIN obj.net |-> netCache[obj.net[m]]]]
    /\ UNCHANGED <<world, caches, store, changes, faults>>

(* getNetwork answers; a network that is gone is an error like any other.  *)
Info(m) ==
    /\ Asking("infos", m)
    /\ LET net == obj.net[m]
       IN  /\ obj' = [obj EXCEPT !.todo = @ \ {m}, !.info[m] = nets[net],
                                 !.failed = @ \/ nets[net] = Gone]
           /\ netCache' = [netCache EXCEPT ![net] = nets[net]]
    /\ UNCHANGED <<world, nicCache, poolCache, store, changes, faults>>

(* Mutant: the error of a request is not passed on.                        *)
FailsUnnoticed(m) ==
    /\ obj.stage # "idle" /\ m \in obj.todo /\ Fault
    /\ obj' = [obj EXCEPT !.todo = @ \ {m}]
    /\ UNCHANGED <<world, caches, store, changes>>

(* A request to NAPI fails; the others are waited for.                     *)
Fails(m) ==
    /\ obj.stage # "idle" /\ m \in obj.todo /\ Fault
    /\ obj' = [obj EXCEPT !.todo = @ \ {m}, !.failed = TRUE]
    /\ UNCHANGED <<world, caches, store, changes>>

Drop ==
    /\ obj.stage # "idle" /\ obj.todo = {} /\ obj.failed
    /\ obj' = Idle
    /\ UNCHANGED <<world, caches, store, changes, faults>>

(* FlagFilter, buildZonesFromVm and the write.                             *)
Write ==
    /\ obj.stage = "infos" /\ obj.todo = {} /\ ~obj.failed
    /\ served' = Records(obj) /\ known' = TRUE /\ obj' = Idle
    /\ UNCHANGED <<world, caches, changes, faults>>

(* Mutant: the pools are listed once, for the first VM that needs them.    *)
UpdatePoolsOnce ==
    /\ poolCache = Undefined /\ poolCache' = pools
    /\ UNCHANGED <<world, nicCache, netCache, obj, store, changes, faults>>

(* Every ten minutes, and at once, again and again, while a VM waits for   *)
(* the first list.  A failure changes nothing.                             *)
UpdatePools ==
    /\ poolCache' = pools
    /\ UNCHANGED <<world, nicCache, netCache, obj, store, changes, faults>>

(* Entries go a minute after they were made; those of networks are also    *)
(* made for other VMs.                                                     *)
ExpireNic(m) ==
    /\ nicCache[m] # None /\ nicCache' = [nicCache EXCEPT ![m] = None]
    /\ UNCHANGED <<world, netCache, poolCache, obj, store, changes, faults>>

ExpireNet(n) ==
    /\ netCache[n] # Gone /\ netCache' = [netCache EXCEPT ![n] = Gone]
    /\ UNCHANGED <<world, nicCache, poolCache, obj, store, changes, faults>>

OtherVM(n) ==
    /\ netCache[n] = Gone /\ nets[n] # Gone
    /\ netCache' = [netCache EXCEPT ![n] = nets[n]]
    /\ UNCHANGED <<world, nicCache, poolCache, obj, store, changes, faults>>

(* The updater dies and is started again; the records are in redis.        *)
Restart ==
    /\ Fault
    /\ nicCache' = [m \in Macs |-> None] /\ netCache' = [n \in Nets |-> Gone]
    /\ poolCache' = Undefined /\ obj' = Idle
    /\ UNCHANGED <<world, store, changes>>

-----------------------------------------------------------------------------
FilterStep ==
    \/ Annotate \/ Drop \/ Write
    \/ \E m \in Macs : FixNic(m) \/ Info(m)

(* The visit of the reaper.                                                *)
Revisit == known /\ Visit

Next ==
    \/ ChangeVM
    \/ \E n \in Nets : ChangeNetwork(n) \/ ChangePools(n) \/ ExpireNet(n) \/ OtherVM(n)
    \/ \E m \in Macs : ChangeNic(m) \/ Fails(m) \/ ExpireNic(m)
    \/ Visit \/ FilterStep \/ UpdatePools \/ Restart

(* A VM that has a key in redis is visited again (Reaper); nothing sees to *)
(* another visit of one that was dropped before it had.  Requests are      *)
(* answered, the interval timer of the pools runs on and entries of the    *)
(* caches have a maxAge.                                                   *)
Fairness ==
    /\ WF_vars(Revisit) /\ WF_vars(FilterStep) /\ WF_vars(UpdatePools)
    /\ \A m \in Macs : WF_vars(ExpireNic(m))
    /\ \A n \in Nets : WF_vars(ExpireNet(n))

Spec == Init /\ [][Next]_vars /\ Fairness

-----------------------------------------------------------------------------
(* Properties.                                                             *)

OrNone == STRING \cup {None}

NameType ==
    [acme : BOOLEAN, net : OrNone, label : STRING, owner : OrNone,
     kind : {"inst", "svc", "short", "cmon", "ptr"}]

RecordType ==
    [zone : Zones \cup {"arpa"}, name : NameType,
     type : {"A", "TXT", "verifying", "SRV", "PTR", "CNAME"},
     text : OrNone, target : {<<>>} \cup {<<PrimaryName(v), z>> : v \in Inputs, z \in Zones},
     src  : {None, VM}]

Kept == Infos \cup {Gone}

(* The VM in the pipeline has a network, pools and what NAPI says for each *)
(* of its nics, as far as it has got.                                      *)
Annotated(o) ==
    LET own == DOMAIN o.vm.nics
    IN  /\ o \in [stage : {"nics", "infos"}, vm : Inputs, failed : BOOLEAN,
                   todo : SUBSET own, net : [own -> Nets \cup {None}],
                   pools : [own -> SUBSET Pools], info : [own -> Kept]]
        /\ o.stage = "infos" => \A m \in own : o.net[m] # None
        /\ o.failed = FALSE =>
             \A m \in own \ o.todo :
                o.net[m] # None /\ (o.stage = "infos" => o.info[m] # Gone)

(* Types; and a VM goes to NetworkInfoFilter with a network for each nic,  *)
(* and is written with what NAPI says of each.                             *)
TypeOK ==
    /\ vm \in Inputs
    /\ nets \in [Nets -> Kept] /\ pools \in [Nets -> SUBSET Pools]
    /\ nics \in [Macs -> Nets \cup {None}]
    /\ nicCache \in [Macs -> Nets \cup {None}] /\ netCache \in [Nets -> Kept]
    /\ poolCache = Undefined \/ poolCache \in [Nets -> SUBSET Pools]
    /\ obj = Idle \/ Annotated(obj)
    /\ served \subseteq RecordType /\ known \in BOOLEAN
    /\ changes \in 0..MaxChanges /\ faults \in 0..MaxFaults

(* A name an SRV record points to has an address in the same zone, and the *)
(* name of a PTR record has that very address: primaryName                 *)
(* (vm-to-zones.js:102) and addInstance (vm-to-zones.js:128) decide apart  *)
(* from each other which names a VM has, FlagFilter whether it has any,    *)
(* and the zones come from what the caches say.                            *)
TargetsResolve ==
    \A r \in served : r.target # <<>> =>
        \E a \in served :
            /\ a.type = "A" /\ a.name = r.target[1] /\ a.zone = r.target[2]
            /\ r.type = "PTR" => a.text = r.name.label

(* The VM as it would be with nothing kept.                                *)
Current ==
    LET net == [m \in DOMAIN vm.nics |->
                  IF vm.nics[m].net # None THEN vm.nics[m].net
                  ELSE IF nics[m] # None THEN nics[m] ELSE Guess[m]]
    IN  [vm |-> vm, net |-> net,
         pools |-> [m \in DOMAIN net |-> pools[net[m]]],
         info  |-> [m \in DOMAIN net |-> nets[net[m]]]]

(* When VMAPI and NAPI have come to rest, the zones end up with exactly    *)
(* the records the VM, its networks and their pools call for, if the VM    *)
(* has been written at all: whatever the filters have kept or dropped      *)
(* since is made up for.                                                   *)
NamesFollow == <>known => <>[](served = Records(Current))
=============================================================================
