SPECIFICATION Spec
CONSTANTS
    Zones = {"pub", "int"}
    Nets = {"n1", "n2"}
    Pools = {"p"}
    Macs = {"m1", "m2"}
    Networks <- MCNetworks
    Rank <- MCRank
    UseAlias = TRUE
    UseLogin = TRUE
    VM = "vm"
    Owner = "owner"
    Dns <- MCDns
    Long <- MCLong
    NetNames = {"one", "two"}
    Inputs <- MCInputs
    Guess <- MCGuess
    Start <- MCStart
    NetsMayGo = FALSE
    MaxChanges = 2
    MaxFaults = 1
INVARIANTS
    TypeOK
    TargetsResolve
PROPERTIES
    NamesFollow
