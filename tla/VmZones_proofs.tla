--------------------------- MODULE VmZones_proofs ---------------------------
(***************************************************************************)
(* Proofs about VmZones, for all VMs, networks and configurations: names   *)
(* that records point to resolve, and whether a record carries a src is    *)
(* told by its name, as UpdateStream assumes.                              *)
(***************************************************************************)
EXTENDS VmZones, TLAPS

(* Which records of a VM point to something, and what gives the name an    *)
(* address.                                                                *)
LEMMA ServicesNeedInstance ==
    ASSUME NEW v, ListServices(v) PROVE ListInstance(v)
BY DEF ListServices, ListInstance

LEMMA PrimaryNameIsListed ==
    ASSUME NEW o, NEW e \in Entries(o)
    PROVE  PrimaryName(o.vm) \in InstNames(o, e)
<1>1. PrimaryName(o.vm) \in {Name(l, "inst", w) : l \in Labels(o.vm), w \in Owners(o.vm)}
  BY DEF PrimaryName, Labels, Owners, Aliases, Logins
<1>2. QED BY <1>1 DEF InstNames, WithNetwork

LEMMA PrimaryAddress ==
    ASSUME NEW o, NEW e \in Entries(o), ListInstance(o.vm)
    PROVE  Rec(e.zone, PrimaryName(o.vm), "A", e.ip, None) \in Records(o)
<1> DEFINE a == Rec(e.zone, PrimaryName(o.vm), "A", e.ip, None)
<1>1. a \in AddInstance(o, e)
  <2>1. a \in InstName(e, PrimaryName(o.vm))
    BY DEF InstName
  <2>2. QED BY <2>1, PrimaryNameIsListed, Zenon DEF AddInstance
<1>2. a \in EntryRecords(o, e)
  BY <1>1 DEF EntryRecords
<1>3. QED BY <1>2, Zenon DEF Records

Origin(o, r) ==
    \/ \E e \in Entries(o) : ListInstance(o.vm) /\ (r \in AddInstance(o, e) \/ r \in AddReverse(o, e))
    \/ \E e \in Entries(o), s \in Services(o.vm) : r \in AddService(o, e, s)
    \/ r \in Cmon

LEMMA RecordOrigin ==
    ASSUME NEW o, NEW r \in Records(o) PROVE Origin(o, r)
<1>1. r \in Cmon \/ \E e \in Entries(o) : r \in EntryRecords(o, e)
  BY Zenon DEF Records
<1>2. QED BY <1>1, Zenon DEF EntryRecords, Origin

LEMMA ACMETargets ==
    ASSUME NEW o, NEW e, NEW names, NEW src, NEW r \in ACME(o, e, names, src)
    PROVE  r.target = <<>>
BY DEF ACME, Rec

LEMMA InstanceTargets ==
    ASSUME NEW o, NEW e, NEW r \in AddInstance(o, e) PROVE r.target = <<>>
<1>1. CASE r \in ACME(o, e, InstNames(o, e), None)
  BY <1>1, ACMETargets
<1>2. CASE \E n \in InstNames(o, e) : r \in InstName(e, n)
  BY <1>2 DEF InstName, Rec
<1>3. QED BY <1>1, <1>2, Zenon DEF AddInstance

LEMMA ServiceTargets ==
    ASSUME NEW o, NEW e, NEW s, NEW r \in AddService(o, e, s), r.target # <<>>
    PROVE  /\ ListServices(o.vm) /\ r.type = "SRV"
           /\ r.target = <<PrimaryName(o.vm), e.zone>>
<1>1. r \in AddSRV(o, e, s)
  <2>1. \/ r \in ACME(o, e, SvcNames(o, e, s) \cup ShortNames(o, s), VM)
        \/ \E n \in SvcNames(o, e, s) \cup ShortNames(o, s) : r \in SvcName(o, e, n)
        \/ r \in AddSRV(o, e, s)
    BY Zenon DEF AddService
  <2>2. ~ \E n \in SvcNames(o, e, s) \cup ShortNames(o, s) : r \in SvcName(o, e, n)
    BY DEF SvcName, Rec
  <2>3. QED BY <2>1, <2>2, ACMETargets
<1>2. QED BY <1>1 DEF AddSRV, Pointer

LEMMA ReverseTargets ==
    ASSUME NEW o, NEW e, NEW r \in AddReverse(o, e), r.target # <<>>
    PROVE  \E f \in Entries(o) :
              /\ f.ip = e.ip /\ r.name.label = e.ip
              /\ r.target = <<PrimaryName(o.vm), f.zone>>
BY DEF AddReverse, Pointer, Rec, Name

Resolves(S, r) ==
    r.target # <<>> =>
        \E a \in S :
            /\ a.type = "A" /\ a.name = r.target[1] /\ a.zone = r.target[2]
            /\ r.type = "PTR" => a.text = r.name.label

LEMMA RecordsResolve ==
    ASSUME NEW o, NEW r \in Records(o) PROVE Resolves(Records(o), r)
<1>1. SUFFICES ASSUME r.target # <<>> PROVE Resolves(Records(o), r)
  BY DEF Resolves
<1>2. ASSUME NEW f \in Entries(o), ListInstance(o.vm),
             r.target = <<PrimaryName(o.vm), f.zone>>,
             r.type = "PTR" => f.ip = r.name.label
      PROVE  Resolves(Records(o), r)
  <2> DEFINE a == Rec(f.zone, PrimaryName(o.vm), "A", f.ip, None)
  <2>1. a \in Records(o)
    BY <1>2, PrimaryAddress
  <2>2. a.type = "A" /\ a.name = r.target[1] /\ a.zone = r.target[2] /\ a.text = f.ip
    BY <1>2 DEF Rec
  <2>3. QED BY <1>2, <2>1, <2>2 DEF Resolves
<1>3. ASSUME NEW e \in Entries(o), ListInstance(o.vm), r \in AddReverse(o, e)
      PROVE  Resolves(Records(o), r)
  BY <1>1, <1>2, <1>3, ReverseTargets
<1>4. ASSUME NEW e \in Entries(o), NEW s \in Services(o.vm), r \in AddService(o, e, s)
      PROVE  Resolves(Records(o), r)
  BY <1>1, <1>2, <1>4, ServiceTargets, ServicesNeedInstance
<1>5. r \notin Cmon
  BY <1>1 DEF Cmon, Rec
<1>6. QED BY <1>1, <1>3, <1>4, <1>5, RecordOrigin, InstanceTargets DEF Origin

(* Whatever the caches and NAPI say, an SRV record points to a name with   *)
(* an address in its zone, and a PTR record to one with that address.      *)
THEOREM NamesResolve == Spec => []TargetsResolve
<1>1. Init => TargetsResolve
  BY DEF Init, TargetsResolve
<1>2. TargetsResolve /\ [Next]_vars => TargetsResolve'
  <2>1. SUFFICES ASSUME TargetsResolve, [Next]_vars PROVE TargetsResolve'
    OBVIOUS
  <2>2. CASE Write
    <3>1. served' = Records(obj)
      BY <2>2 DEF Write
    <3>2. QED BY <3>1, RecordsResolve DEF TargetsResolve, Resolves
  <2>3. CASE UNCHANGED store
    BY <2>1, <2>3 DEF TargetsResolve, store
  <2>4. QED
    BY <2>1, <2>2, <2>3
    DEF Next, FilterStep, vars, ChangeVM, ChangeNetwork, ChangePools, ChangeNic, Change,
        ExpireNet, ExpireNic, OtherVM, Fails, Visit, Annotate, Drop, FixNic, Info,
        UpdatePools, Restart
<1>3. QED BY <1>1, <1>2, PTL DEF Spec

-----------------------------------------------------------------------------
(* Which names carry a src.                                                *)

Sourced(r) ==
    /\ r.src \in {None, VM}
    /\ r.src = VM <=> r.name.kind \in {"svc", "short"}

(* What names a set of them holds: instances' or services'.                *)
Kinds(names, kinds) == \A n \in names : \E l, w, x, b :
    \E k \in kinds : n = [acme |-> b, net |-> x, label |-> l, kind |-> k, owner |-> w]

LEMMA KindsUnion ==
    ASSUME NEW A, NEW B, NEW kinds, Kinds(A, kinds), Kinds(B, kinds)
    PROVE  Kinds(A \cup B, kinds)
BY Zenon DEF Kinds

LEMMA WithNetworkKinds ==
    ASSUME NEW o, NEW e, NEW names, NEW kinds, Kinds(names, kinds)
    PROVE  Kinds(WithNetwork(o, e, names), kinds)
<1>1. SUFFICES ASSUME NEW m \in names
               PROVE  Kinds({[m EXCEPT !.net = Dns[o.info[e.mac].name]]}, kinds)
  BY DEF WithNetwork, Kinds
<1>2. PICK l, w, x, b : \E k \in kinds :
        m = [acme |-> b, net |-> x, label |-> l, kind |-> k, owner |-> w]
  BY DEF Kinds
<1>3. QED BY <1>2 DEF Kinds

LEMMA InstNameKinds ==
    ASSUME NEW o, NEW e PROVE Kinds(InstNames(o, e), {"inst"})
<1>1. Kinds({Name(l, "inst", w) : l \in Labels(o.vm), w \in Owners(o.vm)}, {"inst"})
  BY DEF Kinds, Name
<1>2. QED BY <1>1, WithNetworkKinds DEF InstNames

LEMMA SvcNameKinds ==
    ASSUME NEW o, NEW e, NEW s
    PROVE  /\ Kinds(SvcNames(o, e, s), {"svc", "short"})
           /\ Kinds(ShortNames(o, s), {"svc", "short"})
<1>1. Kinds({Name(s.name, "svc", w) : w \in Owners(o.vm)}, {"svc", "short"})
  BY DEF Kinds, Name
<1>2. Kinds(ShortNames(o, s), {"svc", "short"})
  BY DEF Kinds, Name, ShortNames
<1>3. QED BY <1>1, <1>2, WithNetworkKinds DEF SvcNames

LEMMA ACMESources ==
    ASSUME NEW o, NEW e, NEW names, NEW kinds, Kinds(names, kinds), NEW src,
           NEW r \in ACME(o, e, names, src)
    PROVE  r.src = src /\ r.name.kind \in kinds
<1>1. PICK n \in names, c \in o.vm.challenges :
        r = Rec(e.zone, [n EXCEPT !.acme = TRUE], "TXT", c, src)
  BY DEF ACME
<1>2. PICK l, w, x, b : \E k \in kinds :
        n = [acme |-> b, net |-> x, label |-> l, kind |-> k, owner |-> w]
  BY DEF Kinds
<1>3. QED BY <1>1, <1>2 DEF Rec

LEMMA InstanceSources ==
    ASSUME NEW o, NEW e, NEW r \in AddInstance(o, e)
    PROVE  r.src = None /\ r.name.kind = "inst"
<1>1. CASE r \in ACME(o, e, InstNames(o, e), None)
  BY <1>1, ACMESources, InstNameKinds
<1>2. CASE \E n \in InstNames(o, e) : r \in InstName(e, n)
  BY <1>2, InstNameKinds DEF InstName, Rec, Kinds
<1>3. QED BY <1>1, <1>2, Zenon DEF AddInstance

LEMMA ServiceSources ==
    ASSUME NEW o, NEW e, NEW s, NEW r \in AddService(o, e, s)
    PROVE  r.src = VM /\ r.name.kind \in {"svc", "short"}
<1> DEFINE names == SvcNames(o, e, s) \cup ShortNames(o, s)
<1>1. \/ r \in ACME(o, e, names, VM)
      \/ \E n \in names : r \in SvcName(o, e, n)
      \/ r \in AddSRV(o, e, s)
  BY Zenon DEF AddService
<1>2. Kinds(names, {"svc", "short"})
  BY SvcNameKinds, KindsUnion
<1>3. CASE r \in ACME(o, e, names, VM)
  BY <1>2, <1>3, ACMESources
<1>4. CASE \E n \in names : r \in SvcName(o, e, n)
  BY <1>2, <1>4 DEF SvcName, Rec, Kinds
<1>5. CASE r \in AddSRV(o, e, s)
  BY <1>2, <1>5 DEF AddSRV, Pointer, Kinds
<1>6. QED BY <1>1, <1>3, <1>4, <1>5

(* A record carries a src exactly under the names of services, and it is   *)
(* the VM's: two VMs' records of a name agree on whether they have one.    *)
(* UpdateStream, which compares by value where there is no src, assumes it *)
(* (RecordsAssumption and WantsAssumption).                                *)
THEOREM SourceByName ==
    ASSUME NEW o, NEW r \in Records(o) PROVE Sourced(r)
<1>1. None # VM
  BY VmZonesAssumption
<1>2. ASSUME NEW e, r \in AddReverse(o, e) PROVE Sourced(r)
  BY <1>1, <1>2 DEF AddReverse, Rec, Pointer, Name, Sourced
<1>3. CASE r \in Cmon
  BY <1>1, <1>3 DEF Cmon, Rec, Name, Sourced
<1>4. ASSUME NEW e, r \in AddInstance(o, e) PROVE Sourced(r)
  BY <1>1, <1>4, InstanceSources DEF Sourced
<1>5. ASSUME NEW e, NEW s, r \in AddService(o, e, s) PROVE Sourced(r)
  BY <1>1, <1>5, ServiceSources DEF Sourced
<1>6. QED BY <1>2, <1>3, <1>4, <1>5, RecordOrigin DEF Origin

-----------------------------------------------------------------------------
(* Types.                                                                  *)

(* A VM that buildZonesFromVm gets.                                        *)
Complete(o) == Annotated(o) /\ o.stage = "infos" /\ o.todo = {} /\ o.failed = FALSE

LEMMA InputType ==
    ASSUME NEW v \in Inputs
    PROVE  /\ v.login \in STRING /\ v.ptrname \in STRING /\ v.challenges \subseteq STRING
           /\ Owners(v) \subseteq STRING /\ Labels(v) \subseteq STRING
           /\ PrimaryName(v) \in NameType
           /\ \A s \in Services(v) : s.name \in STRING /\ s.ports \subseteq STRING
<1>1. IsVM(v) /\ VM \in STRING /\ Owner \in STRING
  BY VmZonesAssumption
<1>2. v.login \in STRING /\ v.ptrname \in STRING /\ v.challenges \subseteq STRING
      /\ v.smartdc_role \in STRING /\ v.manta_role \in STRING
      /\ v.svcs \subseteq [name : STRING, ports : SUBSET STRING]
  BY <1>1 DEF IsVM
<1>3. Dns[v.login] \in STRING /\ (v.alias # None => Dns[v.alias] \in STRING)
  BY VmZonesAssumption
<1>4. Owners(v) \subseteq STRING /\ Labels(v) \subseteq STRING
  BY <1>1, <1>3 DEF Owners, Logins, Labels, Aliases
<1>5. PrimaryName(v) \in NameType
  BY <1>1, <1>3 DEF PrimaryName, Name, NameType, Aliases, Logins, OrNone
<1>6. \A s \in Services(v) : s.name \in STRING /\ s.ports \subseteq STRING
  BY <1>2 DEF Services
<1>7. QED BY <1>2, <1>4, <1>5, <1>6

LEMMA EntryType ==
    ASSUME NEW o, Complete(o), NEW e \in Entries(o)
    PROVE  e.mac \in DOMAIN o.vm.nics /\ e.zone \in Zones /\ e.ip \in STRING
<1>1. PICK m \in DOMAIN o.vm.nics :
        e \in [mac : {m}, zone : NicZones(o, m), ip : o.vm.nics[m].ips \ {"dhcp", "addrconf"}]
  BY DEF Entries
<1>2. NicZones(o, m) \subseteq Zones
  BY DEF NicZones
<1>3. o.vm.nics[m].ips \subseteq STRING
  <2>1. IsVM(o.vm)
    BY VmZonesAssumption DEF Complete, Annotated
  <2>2. QED BY <2>1 DEF IsVM, Nics
<1>4. QED BY <1>1, <1>2, <1>3

LEMMA WithNetworkType ==
    ASSUME NEW o, Complete(o), NEW e \in Entries(o), NEW names \in SUBSET NameType
    PROVE  WithNetwork(o, e, names) \subseteq NameType
<1> DEFINE net == Dns[o.info[e.mac].name]
<1>1. o.info[e.mac] \in Infos
  BY EntryType DEF Complete, Annotated, Kept
<1>2. net \in OrNone
  BY <1>1, VmZonesAssumption DEF Infos, OrNone
<1> HIDE DEF net
<1>3. \A n \in names : [n EXCEPT !.net = net] \in NameType
  BY <1>2 DEF NameType
<1>4. QED BY <1>3 DEF WithNetwork, net

LEMMA NameTypes ==
    ASSUME NEW o, Complete(o), NEW e \in Entries(o)
    PROVE  /\ InstNames(o, e) \subseteq NameType
           /\ \A s \in Services(o.vm) :
                SvcNames(o, e, s) \subseteq NameType /\ ShortNames(o, s) \subseteq NameType
<1>1. /\ Owner \in STRING /\ Owners(o.vm) \subseteq STRING /\ Labels(o.vm) \subseteq STRING
      /\ \A s \in Services(o.vm) : s.name \in STRING
  BY VmZonesAssumption, InputType DEF Complete, Annotated
<1>2. \A l, w \in STRING : /\ Name(l, "inst", w) \in NameType /\ Name(l, "svc", w) \in NameType
                           /\ Name(l, "short", None) \in NameType
  BY DEF Name, NameType, OrNone
<1>3. {Name(l, "inst", w) : l \in Labels(o.vm), w \in Owners(o.vm)} \in SUBSET NameType
  <2>1. \A l \in Labels(o.vm), w \in Owners(o.vm) : Name(l, "inst", w) \in NameType
    BY <1>1, <1>2
  <2>2. ASSUME NEW n \in {Name(l, "inst", w) : l \in Labels(o.vm), w \in Owners(o.vm)}
        PROVE  n \in NameType
    <3>1. PICK l \in Labels(o.vm), w \in Owners(o.vm) : n = Name(l, "inst", w)
      OBVIOUS
    <3>2. QED BY <2>1, <3>1
  <2>3. QED BY <2>2
<1>4. ASSUME NEW s \in Services(o.vm)
      PROVE  /\ {Name(s.name, "svc", w) : w \in Owners(o.vm)} \in SUBSET NameType
             /\ ShortNames(o, s) \subseteq NameType
  BY <1>1, <1>2 DEF ShortNames
<1>5. QED BY <1>3, <1>4, WithNetworkType DEF InstNames, SvcNames

LEMMA RecType ==
    ASSUME NEW zone \in Zones \cup {"arpa"}, NEW name \in NameType, NEW text \in OrNone,
           NEW type \in {"A", "TXT", "verifying", "SRV", "PTR", "CNAME"},
           NEW src \in {None, VM}
    PROVE  /\ Rec(zone, name, type, text, src) \in RecordType
           /\ \A v \in Inputs, z \in Zones :
                Pointer(zone, name, type, text, PrimaryName(v), z, src) \in RecordType
BY DEF Rec, Pointer, RecordType

LEMMA ACMEType ==
    ASSUME NEW o, Complete(o), NEW e \in Entries(o), NEW names \in SUBSET NameType,
           NEW src \in {None, VM}
    PROVE  ACME(o, e, names, src) \subseteq RecordType
<1>1. \A n \in names : [n EXCEPT !.acme = TRUE] \in NameType
  BY DEF NameType
<1>2. o.vm.challenges \subseteq STRING /\ e.zone \in Zones
  BY EntryType, InputType DEF Complete, Annotated
<1>3. ASSUME NEW n \in names, NEW c \in o.vm.challenges
      PROVE  Rec(e.zone, [n EXCEPT !.acme = TRUE], "TXT", c, src) \in RecordType
  <2> DEFINE name == [n EXCEPT !.acme = TRUE]
  <2>1. name \in NameType /\ c \in OrNone
    BY <1>1, <1>2 DEF OrNone
  <2> HIDE DEF name
  <2>2. Rec(e.zone, name, "TXT", c, src) \in RecordType
    BY <1>2, <2>1, RecType
  <2>3. QED BY <2>2 DEF name
<1>4. ASSUME NEW r \in ACME(o, e, names, src) PROVE r \in RecordType
  <2>1. PICK n \in names, c \in o.vm.challenges :
          r = Rec(e.zone, [n EXCEPT !.acme = TRUE], "TXT", c, src)
    BY DEF ACME
  <2>2. QED BY <1>3, <2>1
<1>5. QED BY <1>4

LEMMA InstanceType ==
    ASSUME NEW o, Complete(o), NEW e \in Entries(o)
    PROVE  AddInstance(o, e) \subseteq RecordType
<1>1. VM \in STRING /\ e.zone \in Zones /\ e.ip \in STRING
  BY EntryType, VmZonesAssumption
<1>2. \A n \in InstNames(o, e) : InstName(e, n) \subseteq RecordType
  BY <1>1, NameTypes, RecType DEF OrNone, InstName
<1>3. ACME(o, e, InstNames(o, e), None) \subseteq RecordType
  BY NameTypes, ACMEType
<1>4. QED BY <1>2, <1>3, Zenon DEF AddInstance

LEMMA ReverseType ==
    ASSUME NEW o, Complete(o), NEW e \in Entries(o)
    PROVE  AddReverse(o, e) \subseteq RecordType
<1> DEFINE name == Name(e.ip, "ptr", None)
<1>1. name \in NameType
  BY EntryType DEF Name, NameType, OrNone
<1>2. o.vm \in Inputs /\ o.vm.ptrname \in STRING
  BY InputType DEF Complete, Annotated
<1> HIDE DEF name
<1>3. Rec("arpa", name, "PTR", o.vm.ptrname, None) \in RecordType
  BY <1>1, <1>2, RecType DEF OrNone
<1>4. \A f \in Entries(o) :
        Pointer("arpa", name, "PTR", None, PrimaryName(o.vm), f.zone, None) \in RecordType
  <2>1. None \in OrNone
    BY DEF OrNone
  <2>2. QED BY <1>1, <1>2, <2>1, EntryType, RecType
<1>5. QED BY <1>3, <1>4 DEF AddReverse, name

LEMMA ServiceType ==
    ASSUME NEW o, Complete(o), NEW e \in Entries(o), NEW s \in Services(o.vm)
    PROVE  AddService(o, e, s) \subseteq RecordType
<1> DEFINE names == SvcNames(o, e, s) \cup ShortNames(o, s)
<1>1. VM \in STRING /\ e.zone \in Zones /\ e.ip \in STRING /\ o.vm \in Inputs
  BY EntryType, VmZonesAssumption DEF Complete, Annotated
<1>2. names \in SUBSET NameType
  BY NameTypes
<1>3. \A n \in names : SvcName(o, e, n) \subseteq RecordType
  BY <1>1, <1>2, RecType DEF OrNone, SvcName
<1>4. AddSRV(o, e, s) \subseteq RecordType
  <2>1. \A p \in s.ports : p \in OrNone
    BY <1>1, InputType DEF OrNone
  <2>2. \A n \in names, p \in s.ports :
          Pointer(e.zone, n, "SRV", p, PrimaryName(o.vm), e.zone, VM) \in RecordType
    BY <1>1, <1>2, <2>1, RecType
  <2>3. QED BY <2>2 DEF AddSRV
<1>5. ACME(o, e, names, VM) \subseteq RecordType
  BY <1>2, ACMEType
<1>6. QED BY <1>3, <1>4, <1>5, Zenon DEF AddService

LEMMA RecordsType ==
    ASSUME NEW o, Complete(o) PROVE Records(o) \subseteq RecordType
<1>1. Cmon \subseteq RecordType
  <2>1. Name(VM, "cmon", None) \in NameType /\ Zones \subseteq STRING
    BY VmZonesAssumption DEF Name, NameType, OrNone
  <2>2. QED BY <2>1, RecType DEF OrNone, Cmon
<1>2. ASSUME NEW e \in Entries(o) PROVE EntryRecords(o, e) \subseteq RecordType
  BY InstanceType, ReverseType, ServiceType DEF EntryRecords
<1>3. QED BY <1>1, <1>2, Zenon DEF Records

WorldType == /\ vm \in Inputs
             /\ nets \in [Nets -> Kept] /\ pools \in [Nets -> SUBSET Pools]
             /\ nics \in [Macs -> Nets \cup {None}]

CacheType == /\ nicCache \in [Macs -> Nets \cup {None}] /\ netCache \in [Nets -> Kept]
             /\ poolCache = Undefined \/ poolCache \in [Nets -> SUBSET Pools]

LEMMA InitType == Init => TypeOK
<1> SUFFICES ASSUME Init PROVE TypeOK
  OBVIOUS
<1>1. WorldType /\ CacheType
  BY VmZonesAssumption DEF Init, WorldType, CacheType, Kept, Gone
<1>2. obj = Idle /\ served \subseteq RecordType /\ known \in BOOLEAN
  BY DEF Init
<1>3. changes \in 0..MaxChanges /\ faults \in 0..MaxFaults
  BY VmZonesAssumption DEF Init
<1>4. QED BY <1>1, <1>2, <1>3 DEF TypeOK, WorldType, CacheType

LEMMA ChangeType ==
    ASSUME TypeOK,
           ChangeVM \/ (\E n \in Nets : ChangeNetwork(n) \/ ChangePools(n))
                    \/ (\E m \in Macs : ChangeNic(m))
    PROVE  TypeOK'
<1>1. changes' \in 0..MaxChanges /\ UNCHANGED <<caches, obj, store, faults>>
  BY VmZonesAssumption DEF TypeOK, ChangeVM, ChangeNetwork, ChangePools, ChangeNic, Change
<1>2. WorldType'
  <2>1. CASE ChangeVM
    BY <2>1 DEF ChangeVM, WorldType, TypeOK
  <2>2. ASSUME NEW n \in Nets, ChangeNetwork(n) PROVE WorldType'
    BY <2>2 DEF ChangeNetwork, WorldType, TypeOK, Kept
  <2>3. ASSUME NEW n \in Nets, ChangePools(n) PROVE WorldType'
    BY <2>3 DEF ChangePools, WorldType, TypeOK
  <2>4. ASSUME NEW m \in Macs, ChangeNic(m) PROVE WorldType'
    BY <2>4 DEF ChangeNic, WorldType, TypeOK
  <2>5. QED BY <2>1, <2>2, <2>3, <2>4
<1>3. QED BY <1>1, <1>2 DEF TypeOK, WorldType, caches, store

LEMMA CachesType ==
    ASSUME TypeOK,
           UpdatePools \/ (\E n \in Nets : ExpireNet(n) \/ OtherVM(n))
                       \/ (\E m \in Macs : ExpireNic(m))
    PROVE  TypeOK'
<1>1. UNCHANGED <<world, obj, store, changes, faults>>
  BY DEF UpdatePools, ExpireNet, OtherVM, ExpireNic
<1>2. CacheType'
  <2>1. CASE UpdatePools
    BY <2>1 DEF UpdatePools, CacheType, TypeOK
  <2>2. ASSUME NEW n \in Nets, ExpireNet(n) \/ OtherVM(n) PROVE CacheType'
    BY <2>2 DEF ExpireNet, OtherVM, CacheType, TypeOK, Kept
  <2>3. ASSUME NEW m \in Macs, ExpireNic(m) PROVE CacheType'
    BY <2>3 DEF ExpireNic, CacheType, TypeOK
  <2>4. QED BY <2>1, <2>2, <2>3
<1>3. QED BY <1>1, <1>2 DEF TypeOK, CacheType, world, store

(* A filter's step, on the VM that passes it.                              *)
LEMMA VisitType == ASSUME TypeOK, Visit PROVE TypeOK'
<1> DEFINE own == DOMAIN vm.nics
           cached == {m \in Legacy(vm) : nicCache[m] # None}
           net == [m \in own |-> IF m \in cached THEN nicCache[m] ELSE vm.nics[m].net]
           o == [stage |-> "nics", vm |-> vm, failed |-> FALSE,
                 todo |-> Legacy(vm) \ cached, net |-> net,
                 pools |-> [m \in own |-> {}], info |-> [m \in own |-> Gone]]
<1>1. obj' = o /\ UNCHANGED <<world, caches, store, changes, faults>>
  BY DEF Visit
<1>2. own \subseteq Macs /\ \A m \in own : vm.nics[m].net \in Nets \cup {None}
  <2>1. IsVM(vm)
    BY VmZonesAssumption DEF TypeOK
  <2>2. QED BY <2>1 DEF IsVM, Nics
<1>3. net \in [own -> Nets \cup {None}] /\ Legacy(vm) \subseteq own
  BY <1>2 DEF Legacy, TypeOK
<1>4. \A m \in own \ (Legacy(vm) \ cached) : net[m] # None
  BY DEF Legacy
<1> HIDE DEF net, cached
<1>5. Annotated(o)
  BY <1>3, <1>4 DEF Annotated, TypeOK, Kept, Gone
<1>6. QED BY <1>1, <1>5 DEF TypeOK, world, store, caches

LEMMA FixNicType == ASSUME TypeOK, NEW m \in Macs, FixNic(m) PROVE TypeOK'
<1> DEFINE net == IF nics[m] = None THEN Guess[m] ELSE nics[m]
           o == [obj EXCEPT !.todo = @ \ {m}, !.net[m] = net, !.failed = @ \/ net = None]
<1>1. obj' = o /\ Asking("nics", m) /\ nicCache' = [nicCache EXCEPT ![m] = nics[m]]
      /\ UNCHANGED <<world, netCache, poolCache, store, changes, faults>>
  BY DEF FixNic
<1>2. Annotated(obj)
  BY <1>1 DEF TypeOK, Asking, Idle
<1>3. net \in Nets \cup {None}
  BY VmZonesAssumption DEF TypeOK
<1> HIDE DEF net
<1>4. Annotated(o)
  BY <1>1, <1>2, <1>3 DEF Annotated, Asking
<1>5. QED BY <1>1, <1>4 DEF TypeOK, world, store

LEMMA AnnotateType == ASSUME TypeOK, Annotate PROVE TypeOK'
<1> DEFINE own == DOMAIN obj.net
           todo == {m \in own : netCache[obj.net[m]] = Gone}
           ps == [m \in own |-> poolCache[obj.net[m]]]
           info == [m \in own |-> netCache[obj.net[m]]]
           o == [obj EXCEPT !.stage = "infos", !.todo = todo, !.pools = ps, !.info = info]
<1>1. obj' = o /\ UNCHANGED <<world, caches, store, changes, faults>>
      /\ obj.stage = "nics" /\ obj.todo = {} /\ obj.failed = FALSE /\ poolCache # Undefined
  <2>1. Annotated(obj)
    BY DEF TypeOK, Annotate, Idle
  <2>2. QED BY <2>1 DEF Annotate, Annotated
<1>2. Annotated(obj) /\ own = DOMAIN obj.vm.nics
  BY <1>1 DEF TypeOK, Idle, Annotated
<1>3. \A m \in own : obj.net[m] \in Nets
  BY <1>1, <1>2 DEF Annotated
<1>4. ps \in [own -> SUBSET Pools] /\ info \in [own -> Kept] /\ todo \subseteq own
      /\ \A m \in own \ todo : info[m] # Gone
  BY <1>1, <1>3 DEF TypeOK
<1>5. \A m \in own : obj.net[m] # None
  BY <1>3, VmZonesAssumption
<1> HIDE DEF ps, info, todo
<1>6. Annotated(o)
  BY <1>1, <1>2, <1>4, <1>5 DEF Annotated
<1>7. QED BY <1>1, <1>6 DEF TypeOK, world, store, caches

LEMMA InfoType == ASSUME TypeOK, NEW m \in Macs, Info(m) PROVE TypeOK'
<1> DEFINE info == nets[obj.net[m]]
           o == [obj EXCEPT !.todo = @ \ {m}, !.info[m] = info, !.failed = @ \/ info = Gone]
<1>1. obj' = o /\ Asking("infos", m) /\ netCache' = [netCache EXCEPT ![obj.net[m]] = info]
      /\ UNCHANGED <<world, nicCache, poolCache, store, changes, faults>>
  BY DEF Info
<1>2. Annotated(obj)
  BY <1>1 DEF TypeOK, Asking, Idle
<1>3. obj.net[m] \in Nets /\ info \in Kept
  BY <1>1, <1>2 DEF TypeOK, Annotated, Asking
<1> HIDE DEF info
<1>4. Annotated(o)
  BY <1>1, <1>2, <1>3 DEF Annotated, Asking
<1>5. QED BY <1>1, <1>3, <1>4 DEF TypeOK, world, store

LEMMA FailsType == ASSUME TypeOK, NEW m \in Macs, Fails(m) PROVE TypeOK'
<1>1. Annotated(obj)
  BY DEF Fails, TypeOK, Idle
<1>2. Annotated([obj EXCEPT !.todo = @ \ {m}, !.failed = TRUE])
  BY <1>1 DEF Annotated
<1>3. faults' \in 0..MaxFaults
  BY VmZonesAssumption DEF Fails, Fault, TypeOK
<1>4. QED BY <1>2, <1>3 DEF Fails, TypeOK, world, store, caches

LEMMA WriteType == ASSUME TypeOK, Write PROVE TypeOK'
<1>1. Annotated(obj)
  BY DEF Write, TypeOK, Idle
<1>2. Complete(obj)
  BY <1>1 DEF Write, Complete, Annotated
<1>3. QED BY <1>2, RecordsType DEF Write, TypeOK, world, store, caches

(* Types are kept, whatever the filters find in their caches, are told or  *)
(* fail at: buildZonesFromVm is given only VMs of which it is known for    *)
(* every nic what NAPI says of its network, and makes records that have    *)
(* all their parts.                                                        *)
THEOREM TypeCorrect == Spec => []TypeOK
<1>1. TypeOK /\ [Next]_vars => TypeOK'
  <2> SUFFICES ASSUME TypeOK, [Next]_vars PROVE TypeOK'
    OBVIOUS
  <2>1. CASE Drop
    BY <2>1 DEF Drop, TypeOK, world, store, caches
  <2>2. CASE Restart
    BY <2>2, VmZonesAssumption DEF Restart, Fault, TypeOK, Kept, Gone, world, store
  <2>3. CASE UNCHANGED vars
    BY <2>3 DEF vars, TypeOK, world, store, caches
  <2>4. QED
    BY <2>1, <2>2, <2>3, ChangeType, CachesType, VisitType, FixNicType, AnnotateType,
       InfoType, FailsType, WriteType DEF Next, FilterStep
<1>2. QED BY <1>1, InitType, PTL DEF Spec
=============================================================================
