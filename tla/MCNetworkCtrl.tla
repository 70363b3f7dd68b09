--------------------------- MODULE MCNetworkCtrl ---------------------------
(* Model-checking instances of NetworkCtrl.                                *)
EXTENDS NetworkCtrl

CONSTANTS eth0, eth1, wlan0, vlan, inner   \* vlan is eth0.100, inner eth0.100.5

MCLinks == {eth0, eth1, wlan0, vlan, inner}
MCParent == [n \in MCLinks |-> IF n = vlan THEN eth0 ELSE IF n = inner THEN vlan ELSE None]
MCEthernet == {eth0, eth1, vlan, inner}

Config(keys, addr, dw, named) ==
  [keys |-> keys, dw |-> dw, dns |-> named, broken |-> {}, defect |-> "none",
   addr |-> [n \in Links |-> IF n \in DOMAIN addr THEN addr[n] ELSE {}]]

Reset == Config(<<>>, <<>>, "absent", FALSE)
NoText == [Reset EXCEPT !.defect = "json"]

\* A device with a VLAN; the gateway is reached through the second key.
WithVlan == Config(<<eth0, vlan>>, [n \in {eth0, vlan} |-> IF n = vlan THEN {"near"} ELSE {"far"}],
                   "address", TRUE)
\* A VLAN of a VLAN; the gateway is reached through the outer one.
Nested == Config(<<inner, vlan>>, [n \in {inner, vlan} |-> IF n = vlan THEN {"near"} ELSE {"auto"}],
                 "address", FALSE)
\* Only a VLAN: its parent is not listed.
VlanOnly == Config(<<vlan>>, [n \in {vlan} |-> {"auto"}], "absent", FALSE)
\* A link that is not Ethernet; the gateway is in no subnet, or no address.
NoSubnet == Config(<<wlan0, eth1>>,
                   [n \in {wlan0, eth1} |-> IF n = eth1 THEN {"auto", "far"} ELSE {"auto"}],
                   "address", FALSE)
OddGateway == Config(<<eth0, eth1>>, [n \in {eth0, eth1} |-> IF n = eth0 THEN {} ELSE {"near"}],
                     "text", FALSE)
\* Rejected at the tags, at the gateway, at the second file, at the servers.
BadTag == [WithVlan EXCEPT !.defect = "tag"]
BrokenBeforeGateway == [WithVlan EXCEPT !.broken = {eth0}]
BrokenAfterGateway == [Config(<<eth1, eth0>>, [n \in {eth1} |-> {"near"}], "address", FALSE)
                         EXCEPT !.broken = {eth0}]
BadServers == [OddGateway EXCEPT !.defect = "dns"]

MCConfigs == {Reset, NoText, WithVlan, Nested, VlanOnly, NoSubnet, OddGateway, BadTag,
              BrokenBeforeGateway, BrokenAfterGateway, BadServers}
=============================================================================
