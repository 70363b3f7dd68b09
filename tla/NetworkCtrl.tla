---------------------------- MODULE NetworkCtrl ----------------------------
(***************************************************************************)
(* mdmx-network-ctrl: one D-Bus method, ApplyConfiguration, that removes   *)
(* the drop-ins of the previous call from /run, writes those of the new    *)
(* configuration one file at a time, and restarts systemd-networkd and     *)
(* systemd-resolved.  A call may be rejected or fail halfway, and daemon   *)
(* and networkd may be restarted by systemd at any moment.                 *)
(*                                                                         *)
(* networkd and resolved are not in the repository: of networkd the model  *)
(* has the choice of the first matching .network file in name order.       *)
(*                                                                         *)
(* A file is written by one write(2): a torn one is empty, matches no link *)
(* and is taken as absent.  The D-Bus main loop serves one call at a time. *)
(***************************************************************************)
EXTENDS Integers, Sequences, SequencesExt

CONSTANTS
  Links,          \* link names, of devices and of VLANs
  None,
  Parent,         \* per link: what _split_iface calls its base, or None
  Ethernet,       \* the links whose name matches en* or eth*
  Configs,        \* the configurations clients send
  RestartFails,   \* may systemctl restart fail?
  Down,           \* a link under the catch-all (ActivationPolicy=down),
  Dhcp,           \* under 20-wired.network, which the image ships,
  Unmanaged       \* or under no file

ASSUME NoneAssumption == None \notin Links \cup Configs /\ \A S \in SUBSET Links : S # None
ASSUME FallbacksAssumption == Down # Dhcp /\ Dhcp # Unmanaged /\ Down # Unmanaged
ASSUME ParentAssumption == Parent \in [Links -> Links \cup {None}]
ASSUME EthernetAssumption == Ethernet \subseteq Links
ASSUME RestartFailsAssumption == RestartFails \in BOOLEAN

\* "near" is a static address whose subnet holds the default gateway, "far"
\* any other one, "auto" the literal AUTOMATIC.
Addresses == {"auto", "near", "far"}

\* A parsed payload.  keys: the interfaces, in the order of the document; dw:
\* absent, an address, or text that is none; broken: the interfaces whose value
\* is no object; defect: text that is no JSON object, a VLAN tag that is no
\* number, or a dns value that is no list.
ASSUME ConfigsAssumption ==
  \A c \in Configs :
    /\ c.keys \in Seq(Links) /\ IsInjective(c.keys)
    /\ c.addr \in [Links -> SUBSET Addresses]
    /\ c.dw \in {"absent", "address", "text"}
    /\ c.dns \in BOOLEAN
    /\ c.broken \subseteq Range(c.keys)
    /\ c.defect \in {"none", "json", "tag", "dns"}

VARIABLES
  network,        \* 10-mdmx-<link>.network: a profile, or None
  netdev,         \* the VLANs that have a 10-mdmx-<link>.netdev
  catchall,       \* 15-mdmx-catchall.network: the links it excludes, or None
  dns,            \* is there a resolved drop-in?
  applied,        \* what networkd has loaded
  resolved,       \* has resolved loaded the drop-in?
  stale,          \* the units whose last restart failed
  pc, req, todo,  \* the call in progress; the keys its loop has not done
  outcome         \* how the last call ended: "none" while one runs

files == <<network, netdev, catchall, dns>>
daemons == <<applied, resolved, stale>>
call == <<pc, req, todo>>
vars == <<files, daemons, call, outcome>>

----------------------------------------------------------------------------
(* What the configuration says.                                            *)

Keys(c) == Range(c.keys)
IsVlan(n) == Parent[n] # None
Children(c, b) == {v \in Keys(c) : Parent[v] = b}
ExplicitBases(c) == {n \in Keys(c) : ~IsVlan(n)}
StubBases_All(c) ==                         \* mutant: devices taken for VLANs
  {Parent[v] : v \in Keys(c)} \ ExplicitBases(c)

\* The parents the configuration does not list (among its devices).
StubBases(c) == {Parent[v] : v \in {k \in Keys(c) : IsVlan(k)}} \ ExplicitBases(c)

\* The first key of the document that is in S.
First(c, S) ==
  LET i == SelectInSeq(c.keys, LAMBDA n : n \in S) IN IF i = 0 THEN None ELSE c.keys[i]

Near(c)   == {n \in Keys(c) : "near" \in c.addr[n]}
Static(c) == {n \in Keys(c) : c.addr[n] \cap {"near", "far"} # {}}

PickGatewayOwner_FirstStatic(c) ==          \* mutant: the subnet is not asked
  IF c.dw = "absent" THEN None ELSE First(c, Static(c) \cup c.broken)

\* _pick_gateway_owner.  Both loops stop at a broken entry, where they raise:
\* the result is then a broken key.
PickGatewayOwner(c) ==
  LET inSubnet == First(c, Near(c) \cup c.broken) IN
  IF c.dw = "absent" THEN None
  ELSE IF c.dw = "address" /\ inSubnet # None THEN inSubnet
  ELSE First(c, Static(c) \cup c.broken)

Profile(addr, children, gw) == [addr |-> addr, vlans |-> children, gw |-> gw]
Profiles == [addr : SUBSET Addresses, vlans : SUBSET Links, gw : BOOLEAN]

ASSUME ProfilesAssumption == \A p \in Profiles : p \notin {None, Down, Dhcp, Unmanaged}

\* _render_iface_network for one key, and the template of an unlisted parent.
OwnProfile(c, n) ==
  Profile(c.addr[n], IF IsVlan(n) THEN {} ELSE Children(c, n), n = PickGatewayOwner(c))
StubProfile(c, b) == Profile({}, Children(c, b), FALSE)

Excludes(c) == ExplicitBases(c) \cup StubBases(c) \cup Keys(c)

----------------------------------------------------------------------------
(* networkd: the first file that matches a link, in name order.            *)

Loaded(n) ==
  IF network[n] # None THEN network[n]
  ELSE IF n \notin Ethernet THEN Unmanaged
  ELSE IF catchall # None /\ n \notin catchall THEN Down
  ELSE Dhcp

NoFiles == [n \in Links |-> None]
Default == [n \in Links |-> IF n \in Ethernet THEN Dhcp ELSE Unmanaged]

Init ==
  /\ network = NoFiles /\ netdev = {} /\ catchall = None /\ dns = FALSE
  /\ applied = Default /\ resolved = FALSE /\ stale = {}
  /\ pc = "idle" /\ req = None /\ todo = <<>>
  /\ outcome = "none"

----------------------------------------------------------------------------
Idle(o) == pc' = "idle" /\ req' = req /\ todo' = <<>> /\ outcome' = o

\* Text that is no JSON object is rejected before anything is touched.
Receive ==
  /\ pc = "idle"
  /\ \E c \in Configs :
       /\ req' = c
       /\ \/ c.defect = "json" /\ outcome' = "rejected" /\ UNCHANGED pc
          \/ c.defect # "json" /\ outcome' = "none" /\ pc' = "remove"
  /\ UNCHANGED <<files, daemons, todo>>

NoPrefixFiles == network = NoFiles /\ netdev = {}

Empty(c) == c.keys = <<>> /\ c.dw = "absent" /\ ~c.dns /\ c.defect = "none"

RemovePrefixed ==
  \/ \E n \in Links : network[n] # None /\ network' = [network EXCEPT ![n] = None]
                      /\ UNCHANGED netdev
  \/ \E n \in netdev : netdev' = netdev \ {n} /\ UNCHANGED network

RemoveTransientFiles_Netdevs ==             \* mutant: 10-mdmx-*.netdev only
  /\ pc = "remove"
  /\ \/ netdev # {} /\ netdev' = {} /\ UNCHANGED call
     \/ netdev = {} /\ UNCHANGED netdev /\ UNCHANGED <<req, todo>>
        /\ pc' = IF Empty(req) THEN "restart" ELSE "plan"
  /\ catchall' = None
  /\ dns' = FALSE
  /\ UNCHANGED <<network, daemons, outcome>>

\* The 10-mdmx-* files in the order of the directory, the catch-all, the
\* resolved drop-in.  An empty object ends the writing here.
RemoveTransientFiles ==
  /\ pc = "remove"
  /\ \/ RemovePrefixed /\ UNCHANGED <<catchall, dns, call>>
     \/ NoPrefixFiles /\ catchall # None /\ catchall' = None
        /\ UNCHANGED <<network, netdev, dns, call>>
     \/ NoPrefixFiles /\ catchall = None /\ dns /\ dns' = FALSE
        /\ UNCHANGED <<network, netdev, catchall, call>>
     \/ NoPrefixFiles /\ catchall = None /\ ~dns
        /\ UNCHANGED <<files, req, todo>>
        /\ pc' = IF Empty(req) THEN "restart" ELSE "plan"
  /\ UNCHANGED <<daemons, outcome>>

\* The loop that reads the tags, and the choice of the gateway's interface.
Plan ==
  /\ pc = "plan"
  /\ IF req.defect = "tag" \/ PickGatewayOwner(req) \in req.broken
       THEN Idle("rejected")
       ELSE pc' = "netdev" /\ todo' = req.keys /\ UNCHANGED <<req, outcome>>
  /\ UNCHANGED <<files, daemons>>

WriteNetdev ==
  /\ pc = "netdev"
  /\ IF todo = <<>>
       THEN pc' = "network" /\ todo' = req.keys /\ UNCHANGED netdev
       ELSE /\ netdev' = IF IsVlan(Head(todo)) THEN netdev \cup {Head(todo)} ELSE netdev
            /\ todo' = Tail(todo)
            /\ UNCHANGED pc
  /\ UNCHANGED <<network, catchall, dns, daemons, req, outcome>>

\* Rendering a broken entry raises; the files before it stay.
WriteNetwork ==
  /\ pc = "network"
  /\ \/ /\ todo = <<>>
        /\ pc' = "stub" /\ todo' = req.keys
        /\ UNCHANGED <<network, req, outcome>>
     \/ /\ todo # <<>> /\ Head(todo) \notin req.broken
        /\ network' = [network EXCEPT ![Head(todo)] = OwnProfile(req, Head(todo))]
        /\ todo' = Tail(todo)
        /\ UNCHANGED <<pc, req, outcome>>
     \/ /\ todo # <<>> /\ Head(todo) \in req.broken
        /\ Idle("rejected")
        /\ UNCHANGED network
  /\ UNCHANGED <<netdev, catchall, dns, daemons>>

\* One step per child: a parent with two children is written twice, alike.
WriteStub ==
  /\ pc = "stub"
  /\ IF todo = <<>>
       THEN pc' = "catchall" /\ UNCHANGED <<network, todo>>
       ELSE LET b == Parent[Head(todo)] IN
            /\ network' = IF b \in StubBases(req)
                            THEN [network EXCEPT ![b] = StubProfile(req, b)]
                            ELSE network
            /\ todo' = Tail(todo)
            /\ UNCHANGED pc
  /\ UNCHANGED <<netdev, catchall, dns, daemons, req, outcome>>

WriteCatchall ==
  /\ pc = "catchall"
  /\ catchall' = Excludes(req)
  /\ pc' = "dns"
  /\ UNCHANGED <<network, netdev, dns, daemons, req, todo, outcome>>

WriteResolved ==
  /\ pc = "dns"
  /\ IF req.defect = "dns"
       THEN Idle("rejected") /\ UNCHANGED dns
       ELSE dns' = req.dns /\ pc' = "restart" /\ UNCHANGED <<req, todo, outcome>>
  /\ UNCHANGED <<network, netdev, catchall, daemons>>

\* A failing systemctl is logged and otherwise ignored.
RestartNetworkd ==
  /\ pc = "restart"
  /\ pc' = "resolved"
  /\ \/ applied' = [n \in Links |-> Loaded(n)] /\ stale' = stale \ {"networkd"}
     \/ RestartFails /\ stale' = stale \cup {"networkd"} /\ UNCHANGED applied
  /\ UNCHANGED <<files, resolved, req, todo, outcome>>

RestartResolved ==
  /\ pc = "resolved"
  /\ Idle("ok")
  /\ \/ resolved' = dns /\ stale' = stale \ {"resolved"}
     \/ RestartFails /\ stale' = stale \cup {"resolved"} /\ UNCHANGED resolved
  /\ UNCHANGED <<files, applied>>

----------------------------------------------------------------------------
\* An OSError while files are removed or written ends the call with ApplyFailed.
IoError ==
  /\ pc \in {"remove", "netdev", "network", "stub", "catchall", "dns"}
  /\ Idle("failed")
  /\ UNCHANGED <<files, daemons>>

\* The daemon dies; systemd starts a new one (Restart=on-failure).
Crash ==
  /\ pc # "idle"
  /\ Idle("none")
  /\ UNCHANGED <<files, daemons>>

\* Someone else restarts networkd.
NetworkdRestarts ==
  /\ applied' = [n \in Links |-> Loaded(n)]
  /\ stale' = stale \ {"networkd"}
  /\ UNCHANGED <<files, resolved, call, outcome>>

\* /run is a tmpfs.
Reboot ==
  /\ network' = NoFiles /\ netdev' = {} /\ catchall' = None /\ dns' = FALSE
  /\ applied' = Default /\ resolved' = FALSE /\ stale' = {}
  /\ pc' = "idle" /\ req' = None /\ todo' = <<>>
  /\ outcome' = "none"

Next ==
  \/ Receive \/ RemoveTransientFiles \/ Plan \/ WriteNetdev \/ WriteNetwork
  \/ WriteStub \/ WriteCatchall \/ WriteResolved \/ RestartNetworkd
  \/ RestartResolved \/ IoError \/ Crash \/ NetworkdRestarts \/ Reboot

Spec == Init /\ [][Next]_vars

----------------------------------------------------------------------------
FileTypes ==
  /\ network \in [Links -> Profiles \cup {None}]
  /\ netdev \subseteq Links
  /\ catchall \in (SUBSET Links) \cup {None}
  /\ dns \in BOOLEAN
DaemonTypes ==
  /\ applied \in [Links -> Profiles \cup {Down, Dhcp, Unmanaged}]
  /\ resolved \in BOOLEAN /\ stale \subseteq {"networkd", "resolved"}
CallTypes ==
  /\ pc \in {"idle", "remove", "plan", "netdev", "network", "stub", "catchall",
             "dns", "restart", "resolved"}
  /\ req \in Configs \cup {None}
  /\ pc # "idle" => req # None
  /\ todo \in Seq(Links)
  /\ outcome \in {"none", "ok", "rejected", "failed"}

TypeOK == FileTypes /\ DaemonTypes /\ CallTypes

\* NetworkControlProtocol.md, read for a function from the links to what
\* networkd makes of them.  A listed VLAN that has a listed VLAN of its own gets
\* the file of an unlisted parent (line 257), so no address, route or gateway.
OnDisk == [n \in Links |-> Loaded(n)]
Managed(run, n) == run[n] \in Profiles
Overwritten(c) == Keys(c) \cap StubBases(c)

ListedLinksConfigured(run) ==
  \A n \in Keys(req) \ Overwritten(req) : Managed(run, n) /\ run[n].addr = req.addr[n]
VlansAttached(run) ==
  \A v \in Keys(req) : IsVlan(v) =>
    /\ v \in netdev
    /\ Managed(run, Parent[v]) /\ v \in run[Parent[v]].vlans
OtherEthernetDown(run) ==
  \A n \in Ethernet \ Keys(req) :
    IF Children(req, n) # {} THEN Managed(run, n) /\ run[n].addr = {} ELSE run[n] = Down
GatewayPlaced(run) ==
  LET owners == {n \in Links : Managed(run, n) /\ run[n].gw} IN
  IF req.dw = "absent" \/ Static(req) = {} THEN owners = {}
  ELSE \E n \in Static(req) :
         /\ owners = {n} \ Overwritten(req)
         /\ req.dw = "address" /\ Near(req) # {} => n \in Near(req)

Configured(run) ==
  IF Empty(req) THEN run = Default /\ netdev = {}
  ELSE /\ ListedLinksConfigured(run) /\ VlansAttached(run)
       /\ OtherEthernetDown(run) /\ GatewayPlaced(run)

Answered == pc = "idle" /\ outcome = "ok"

\* After a call that was answered without an error, whatever rejected calls, I/O
\* errors and crashes left on disk before it, the next start of networkd and of
\* resolved applies the configuration.  They run it already, unless systemctl
\* failed, which the answer does not tell (lines 302-304).  Configured is less than
\* two texts have it: every device that is not listed is taken down
\* (NetworkControlProtocol.md:15-16; the catch-all speaks of en* and eth* only),
\* and stubs are for parents "that weren't listed themselves" (lines 253-255; the
\* test does not know the listed VLANs: Overwritten).
AcceptedIsApplied ==
  Answered =>
    /\ Configured(OnDisk) /\ dns = req.dns
    /\ "networkd" \notin stale => applied = OnDisk
    /\ "resolved" \notin stale => resolved = dns

\* Whenever networkd is restarted, also between two writes or over the remains
\* of a call that failed, it finds at most one default gateway.
OneDefaultGateway ==
  \A m, n \in Links :
    network[m] # None /\ network[n] # None /\ network[m].gw /\ network[n].gw => m = n
=============================================================================
