----------------------------- MODULE MCVmZones -----------------------------
(***************************************************************************)
(* A public zone for one network and a pool, and a catch-all zone.  A VM   *)
(* with a nic on the public network and one, without its network in VMAPI, *)
(* that may be on either.                                                  *)
(***************************************************************************)
EXTENDS VmZones

MCNetworks == [pub |-> {"n1", "p"}, int |-> {"*"}]
MCRank == [int |-> 1, pub |-> 2]
MCDns == [Web |-> "web", Endless |-> "endless", fred |-> "fred", admin |-> "admin",
          nameless |-> "nameless", one |-> "one", two |-> "two"]
MCLong == {"Endless"}
MCGuess == [m1 |-> None, m2 |-> "n2"]
Running ==
    [alias |-> "Web", login |-> "fred", approved |-> TRUE, state |-> "running",
     down |-> FALSE, status |-> "up", disabled |-> FALSE, ptrname |-> None,
     svcs |-> {[name |-> "www", ports |-> {"80"}]}, smartdc_role |-> None,
     manta_role |-> None, challenges |-> {"token"},
     nics |-> [m1 |-> [net |-> "n1", tag |-> "external", ips |-> {"192.0.2.1"}],
               m2 |-> [net |-> None, tag |-> "internal", ips |-> {"10.0.0.1", "dhcp"}]]]

MCStart == [vm    |-> Running,
            nets  |-> [n1 |-> [name |-> "one", owned |-> FALSE],
                       n2 |-> [name |-> "two", owned |-> TRUE]],
            pools |-> [n1 |-> {}, n2 |-> {"p"}],
            nics  |-> [m1 |-> "n1", m2 |-> "n2"]]

MCInputs ==
    {Running,
     [Running EXCEPT !.alias = "Endless"],
     [Running EXCEPT !.state = "stopped"],
     [Running EXCEPT !.approved = FALSE, !.ptrname = "mail.example.com"],
     [Running EXCEPT !.login = "admin", !.smartdc_role = "cloudapi", !.approved = FALSE,
                     !.down = TRUE, !.nics.m2.tag = "admin"],
     [Running EXCEPT !.state = "destroyed"]}
=============================================================================
