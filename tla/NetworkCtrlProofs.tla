------------------------- MODULE NetworkCtrlProofs -------------------------
(***************************************************************************)
(* What NetworkCtrl promises for every set of links, every tree of VLANs,  *)
(* every set of configurations.                                            *)
(***************************************************************************)
EXTENDS NetworkCtrl, WellFoundedInduction, TLAPS

----------------------------------------------------------------------------
(* The operators.                                                          *)

\* A set of numbers has a least one: < is well-founded.
LEMMA LeastNumber ==
  ASSUME NEW S \in SUBSET Nat, S # {}
  PROVE  \E x \in S : \A y \in S : x <= y
<1> DEFINE Less == OpToRel(<, Nat)
<1>1. IsWellFoundedOn(Less, Nat)
  BY NatLessThanWellFounded
<1>2. \A x, y \in Nat : <<y, x>> \in Less <=> y < x
  BY DEF OpToRel
<1> HIDE DEF Less
<1>3. PICK x \in S : \A y \in S : ~ (<<y, x>> \in Less)
  BY <1>1, WFMin
<1>4. \A y \in S : x <= y
  <2> TAKE y \in S
  <2>1. x \in Nat /\ y \in Nat
    OBVIOUS
  <2>2. ~ (y < x)
    BY <1>2, <1>3, <2>1
  <2> QED BY <2>1, <2>2
<1> QED BY <1>4

\* The first key in S is a key in S, or there is none.
LEMMA FirstIn ==
  ASSUME NEW c \in Configs, NEW S
  PROVE  \/ First(c, S) = None /\ Keys(c) \cap S = {}
         \/ First(c, S) \in Keys(c) \cap S
<1> DEFINE I == {i \in 1 .. Len(c.keys) : c.keys[i] \in S}
<1>1. c.keys \in Seq(Links)
  BY ConfigsAssumption
<1>2. I # {} => Min(I) \in I
  <2> SUFFICES ASSUME I # {} PROVE Min(I) \in I
    OBVIOUS
  <2>1. I \in SUBSET Nat
    BY <1>1
  <2> HIDE DEF I
  <2>2. PICK x \in I : \A y \in I : x <= y
    BY <2>1, LeastNumber
  <2> QED BY <2>2 DEF Min
<1>3. SelectInSeq(c.keys, LAMBDA n : n \in S) = IF I # {} THEN Min(I) ELSE 0
  BY DEF SelectInSeq
<1>4. Keys(c) = {c.keys[i] : i \in 1 .. Len(c.keys)}
  BY <1>1 DEF Keys, Range
<1>5. CASE I = {}
  <2>1. First(c, S) = None
    BY <1>3, <1>5 DEF First
  <2>2. Keys(c) \cap S = {}
    BY <1>4, <1>5
  <2> QED BY <2>1, <2>2
<1>6. CASE I # {}
  <2> DEFINE i == Min(I)
  <2>1. i \in 1 .. Len(c.keys) /\ c.keys[i] \in S
    BY <1>2, <1>6
  <2> HIDE DEF I
  <2>2. First(c, S) = IF i = 0 THEN None ELSE c.keys[i]
    BY <1>3, <1>6 DEF First
  <2> HIDE DEF i
  <2>3. i # 0
    BY <1>1, <2>1
  <2> QED BY <1>4, <2>1, <2>2, <2>3
<1> QED BY <1>5, <1>6

\* A loop over a sequence does its elements one by one.
LEMMA RangeTail ==
  ASSUME NEW S, NEW s \in Seq(S), s # <<>>
  PROVE  /\ Head(s) \in S /\ Tail(s) \in Seq(S)
         /\ Head(s) \in Range(s)
         /\ Range(Tail(s)) \subseteq Range(s)
         /\ Range(s) = Range(Tail(s)) \cup {Head(s)}
<1>1. Range(s) = {s[i] : i \in 1 .. Len(s)}
  BY DEF Range
<1>2. Head(s) \in S /\ Tail(s) \in Seq(S) /\ Len(s) # 0
  OBVIOUS
<1>3. Range(Tail(s)) = {s[i + 1] : i \in 1 .. Len(s) - 1}
  <2>1. Len(Tail(s)) = Len(s) - 1 /\ \A i \in 1 .. Len(s) - 1 : Tail(s)[i] = s[i + 1]
    BY <1>2
  <2>2. DOMAIN Tail(s) = 1 .. Len(Tail(s))
    BY <1>2
  <2> QED BY <2>1, <2>2 DEF Range
<1>4. \A i \in 1 .. Len(s) : i = 1 \/ (i - 1 \in 1 .. Len(s) - 1 /\ i = (i - 1) + 1)
  OBVIOUS
<1>5. Head(s) = s[1] /\ 1 \in 1 .. Len(s)
  BY <1>2
<1>6. Head(s) \in Range(s) /\ Range(Tail(s)) \subseteq Range(s)
  BY <1>1, <1>2, <1>3, <1>5
<1>7. ASSUME NEW x \in Range(s) PROVE x = Head(s) \/ x \in Range(Tail(s))
  <2>1. PICK i \in 1 .. Len(s) : x = s[i]
    BY <1>1
  <2>2. CASE i = 1
    BY <1>5, <2>1, <2>2
  <2>3. CASE i # 1
    <3>1. i - 1 \in 1 .. Len(s) - 1 /\ x = s[(i - 1) + 1]
      BY <1>4, <2>1, <2>3
    <3> QED BY <1>3, <3>1
  <2> QED BY <2>2, <2>3
<1> QED BY <1>2, <1>6, <1>7

\* Nothing left to do.
LEMMA RangeEmpty == Range(<<>>) = {}
  BY DEF Range
----------------------------------------------------------------------------
\* A configuration names links, and so do its parents and children.
LEMMA KeysOfLinks == \A c \in Configs : Keys(c) \subseteq Links
<1> TAKE c \in Configs
<1>1. c.keys \in Seq(Links)
  BY ConfigsAssumption
<1> QED BY <1>1 DEF Keys, Range

LEMMA ParentsAreLinks ==
  ASSUME NEW c \in Configs
  PROVE  StubBases(c) \subseteq Links /\ ExplicitBases(c) \subseteq Links
         /\ \A b : Children(c, b) \subseteq Links
BY KeysOfLinks, ParentAssumption DEF StubBases, ExplicitBases, Children, IsVlan

\* What a file may say, whether it is a listed device's or a stub.
LEMMA ProfileTypes ==
  ASSUME NEW c \in Configs, NEW n \in Links
  PROVE  OwnProfile(c, n) \in Profiles /\ StubProfile(c, n) \in Profiles
<1>1. c.addr[n] \in SUBSET Addresses
  BY ConfigsAssumption
<1> QED BY <1>1, ParentsAreLinks DEF OwnProfile, StubProfile, Profile, Profiles

\* What the profiles say, field by field.
LEMMA OwnFields ==
  ASSUME NEW c, NEW n
  PROVE  /\ OwnProfile(c, n).addr = c.addr[n]
         /\ ~IsVlan(n) => OwnProfile(c, n).vlans = Children(c, n)
         /\ OwnProfile(c, n).gw <=> n = PickGatewayOwner(c)
BY DEF OwnProfile, Profile

LEMMA StubFields ==
  ASSUME NEW c, NEW n
  PROVE  /\ StubProfile(c, n).addr = {} /\ StubProfile(c, n).vlans = Children(c, n)
         /\ ~StubProfile(c, n).gw
BY DEF StubProfile, Profile

\* What networkd makes of the files that are there.
LEMMA LoadedType ==
  ASSUME network \in [Links -> Profiles \cup {None}]
  PROVE  [n \in Links |-> Loaded(n)] \in [Links -> Profiles \cup {Down, Dhcp, Unmanaged}]
BY DEF Loaded

\* Every variable keeps its type, and a call in progress has a configuration.
THEOREM TypeCorrect == Spec => []TypeOK
<1>0. <<>> \in Seq(Links)
  OBVIOUS
<1>1. Init => TypeOK
  <2>1. Init => FileTypes
    BY DEF Init, FileTypes, NoFiles
  <2>2. Init => DaemonTypes
    BY DEF Init, DaemonTypes, Default
  <2>3. Init => CallTypes
    BY <1>0 DEF Init, CallTypes
  <2> QED BY <2>1, <2>2, <2>3 DEF TypeOK
<1>2. ASSUME TypeOK, [Next]_vars PROVE FileTypes'
  <2>1. FileTypes /\ (pc # "idle" => req \in Configs) /\ (todo # <<>> => Head(todo) \in Links)
    BY <1>2 DEF TypeOK, CallTypes
  <2> USE <2>1 DEF FileTypes, files
  <2>2. CASE RemoveTransientFiles
    BY <2>2 DEF RemoveTransientFiles, RemovePrefixed
  <2>3. CASE WriteNetdev
    BY <2>3 DEF WriteNetdev
  <2>4. CASE WriteNetwork
    <3>1. todo # <<>> => OwnProfile(req, Head(todo)) \in Profiles
      BY <2>4, ProfileTypes DEF WriteNetwork
    <3> QED BY <2>4, <3>1 DEF WriteNetwork
  <2>5. CASE WriteStub
    <3>1. \A b \in StubBases(req) : b \in Links /\ StubProfile(req, b) \in Profiles
      BY <2>5, ParentsAreLinks, ProfileTypes DEF WriteStub
    <3> QED BY <2>5, <3>1 DEF WriteStub
  <2>6. CASE WriteCatchall
    <3>1. Excludes(req) \subseteq Links
      BY <2>6, ParentsAreLinks, KeysOfLinks DEF Excludes, WriteCatchall
    <3> QED BY <2>6, <3>1 DEF WriteCatchall
  <2>7. CASE WriteResolved
    BY <2>7, ConfigsAssumption DEF WriteResolved
  <2>8. CASE Reboot
    BY <2>8 DEF Reboot, NoFiles
  <2>9. CASE UNCHANGED files
    BY <2>9
  <2> QED
    BY <1>2, <2>2, <2>3, <2>4, <2>5, <2>6, <2>7, <2>8, <2>9
    DEF Next, vars, Receive, Plan, RestartNetworkd, RestartResolved, IoError, Crash,
        NetworkdRestarts
<1>3. ASSUME TypeOK, [Next]_vars PROVE DaemonTypes'
  <2>1. FileTypes /\ DaemonTypes
    BY <1>2, <1>3 DEF TypeOK
  <2> USE <2>1 DEF FileTypes, DaemonTypes, daemons
  <2>2. CASE RestartNetworkd \/ NetworkdRestarts
    BY <2>2, LoadedType DEF RestartNetworkd, NetworkdRestarts
  <2>3. CASE RestartResolved
    BY <2>3 DEF RestartResolved
  <2>4. CASE Reboot
    BY <2>4 DEF Reboot, Default
  <2>5. CASE UNCHANGED daemons
    BY <2>5
  <2> QED
    BY <1>3, <2>2, <2>3, <2>4, <2>5
    DEF Next, vars, Receive, RemoveTransientFiles, Plan, WriteNetdev, WriteNetwork, WriteStub,
        WriteCatchall, WriteResolved, IoError, Crash
<1>4. ASSUME TypeOK, [Next]_vars PROVE CallTypes'
  <2>1. CallTypes
    BY <1>4 DEF TypeOK
  <2>2. pc # "idle" => req.keys \in Seq(Links)
    BY <2>1, ConfigsAssumption DEF CallTypes
  <2> USE <1>0, <2>1, <2>2 DEF CallTypes, call, Idle
  <2>3. CASE Receive
    BY <2>3, NoneAssumption DEF Receive
  <2>4. CASE RemoveTransientFiles
    BY <2>4 DEF RemoveTransientFiles
  <2>5. CASE Plan
    BY <2>5 DEF Plan
  <2>6. CASE WriteNetdev
    BY <2>6 DEF WriteNetdev
  <2>7. CASE WriteNetwork
    <3>1. todo' \in Seq(Links)
      <4>1. \/ todo' = req.keys \/ todo' = <<>>
            \/ todo # <<>> /\ todo' = Tail(todo)
        BY <2>7 DEF WriteNetwork
      <4>2. todo # <<>> => Tail(todo) \in Seq(Links)
        OBVIOUS
      <4>3. req.keys \in Seq(Links)
        BY <2>7 DEF WriteNetwork
      <4> QED BY <4>1, <4>2, <4>3
    <3>2. pc' \in {"network", "stub", "idle"} /\ req' = req /\ outcome' \in {outcome, "rejected"}
      BY <2>7 DEF WriteNetwork
    <3> QED BY <2>7, <3>1, <3>2 DEF WriteNetwork
  <2>8. CASE WriteStub
    BY <2>8 DEF WriteStub
  <2>9. CASE WriteCatchall \/ WriteResolved
    BY <2>9 DEF WriteCatchall, WriteResolved
  <2>10. CASE RestartNetworkd \/ RestartResolved
    BY <2>10 DEF RestartNetworkd, RestartResolved
  <2>11. CASE IoError \/ Crash
    BY <2>11 DEF IoError, Crash
  <2>12. CASE NetworkdRestarts
    BY <2>12 DEF NetworkdRestarts
  <2>13. CASE Reboot
    BY <2>13 DEF Reboot
  <2>14. CASE UNCHANGED vars
    BY <2>14 DEF vars
  <2> QED
    BY <1>4, <2>3, <2>4, <2>5, <2>6, <2>7, <2>8, <2>9, <2>10, <2>11, <2>12, <2>13, <2>14 DEF Next
<1>5. TypeOK /\ [Next]_vars => TypeOK'
  BY <1>2, <1>3, <1>4 DEF TypeOK
<1> QED
  BY <1>1, <1>5, PTL DEF Spec

----------------------------------------------------------------------------
(* How far a call has come, read off pc and todo.                          *)

VlanKeys(c) == {n \in Keys(c) : IsVlan(n)}
Accepted(c) == PickGatewayOwner(c) \notin c.broken

\* What the two loops over the 10-mdmx-*.network files leave behind.
Listed(c) == [n \in Links |-> IF n \in Keys(c) THEN OwnProfile(c, n) ELSE None]
Wanted(c) == [n \in Links |-> IF n \in StubBases(c) THEN StubProfile(c, n) ELSE Listed(c)[n]]

\* The files of a call that was answered without an error.
Complete(c) ==
  IF Empty(c)
    THEN network = NoFiles /\ netdev = {} /\ catchall = None /\ dns = FALSE
    ELSE /\ Accepted(c)
         /\ network = Wanted(c) /\ netdev = VlanKeys(c)
         /\ catchall = Excludes(c) /\ dns = c.dns

Calling == pc # "idle" => outcome = "none"
Planned ==
  /\ pc \in {"plan", "netdev", "network", "stub", "catchall", "dns"} => ~Empty(req)
  /\ pc \in {"netdev", "network", "stub", "catchall", "dns"} => Accepted(req)
Looping == pc \in {"netdev", "network", "stub"} => Range(todo) \subseteq Keys(req)
NetdevFiles ==
  /\ pc = "plan" => netdev = {}
  /\ pc = "netdev" => /\ netdev \subseteq VlanKeys(req)
                      /\ VlanKeys(req) \subseteq netdev \cup Range(todo)
  /\ pc \in {"network", "stub", "catchall", "dns"} => netdev = VlanKeys(req)
NetworkFiles ==
  /\ pc \in {"plan", "netdev"} => network = NoFiles
  /\ pc = "network" => \A n \in Links :
       network[n] = Listed(req)[n] \/ (network[n] = None /\ n \in Range(todo))
  /\ pc = "stub" => \A n \in Links :
       network[n] = Wanted(req)[n]
         \/ (n \in StubBases(req) /\ \E v \in Range(todo) : Parent[v] = n)
  /\ pc \in {"catchall", "dns"} => network = Wanted(req)
CatchallFile == pc = "dns" => catchall = Excludes(req)
Written == pc \in {"restart", "resolved"} \/ Answered => Complete(req)
Loading ==
  pc = "resolved" \/ Answered =>
    ("networkd" \notin stale => applied = [n \in Links |-> Loaded(n)])
Resolving == Answered => req \in Configs /\ ("resolved" \notin stale => resolved = dns)

Inv == /\ Calling /\ Planned /\ Looping
       /\ NetdevFiles /\ NetworkFiles /\ CatchallFile /\ Written
       /\ Loading /\ Resolving

\* A call in progress has not answered, and is past the refusals it is past.
LEMMA CallSteps ==
  ASSUME TypeOK, Inv, [Next]_vars
  PROVE  Calling' /\ Planned' /\ CatchallFile'
<1> USE DEF Calling, Planned, CatchallFile, Accepted, files, daemons, call, Idle
<1>1. Calling /\ Planned /\ CatchallFile
  BY DEF Inv
<1>2. CASE Receive
  BY <1>2 DEF Receive
<1>3. CASE RemoveTransientFiles
  BY <1>1, <1>3 DEF RemoveTransientFiles
<1>4. CASE Plan
  BY <1>1, <1>4 DEF Plan
<1>5. CASE WriteNetdev \/ WriteNetwork \/ WriteStub
  BY <1>1, <1>5 DEF WriteNetdev, WriteNetwork, WriteStub
<1>6. CASE WriteCatchall \/ WriteResolved
  BY <1>1, <1>6 DEF WriteCatchall, WriteResolved
<1>7. CASE RestartNetworkd \/ RestartResolved
  BY <1>1, <1>7 DEF RestartNetworkd, RestartResolved
<1>8. CASE IoError \/ Crash \/ Reboot
  BY <1>8 DEF IoError, Crash, Reboot
<1>9. CASE NetworkdRestarts \/ UNCHANGED vars
  BY <1>1, <1>9 DEF NetworkdRestarts, vars
<1> QED
  BY <1>2, <1>3, <1>4, <1>5, <1>6, <1>7, <1>8, <1>9 DEF Next

\* The loops only ever have keys of the document before them.
LEMMA LoopSteps ==
  ASSUME TypeOK, Inv, [Next]_vars
  PROVE  Looping'
<1> USE DEF Looping, files, daemons, call, Idle
<1>1. Looping /\ todo \in Seq(Links)
  BY DEF Inv, TypeOK, CallTypes
<1>2. todo # <<>> => Range(Tail(todo)) \subseteq Range(todo)
  BY <1>1, RangeTail
<1>3. CASE Plan \/ WriteNetdev \/ WriteNetwork \/ WriteStub
  BY <1>1, <1>2, <1>3 DEF Plan, WriteNetdev, WriteNetwork, WriteStub, Keys
<1>4. CASE UNCHANGED call
  BY <1>1, <1>4
<1> QED
  BY <1>3, <1>4
  DEF Next, vars, Receive, RemoveTransientFiles, WriteCatchall, WriteResolved, RestartNetworkd,
      RestartResolved, IoError, Crash, NetworkdRestarts, Reboot

\* The VLAN files written so far, and all of them when the loop has ended.
LEMMA NetdevSteps ==
  ASSUME TypeOK, Inv, [Next]_vars
  PROVE  NetdevFiles'
<1> USE DEF NetdevFiles, VlanKeys, files, daemons, call, Idle
<1>1. NetdevFiles /\ Looping /\ todo \in Seq(Links)
  BY DEF Inv, TypeOK, CallTypes
<1>2. CASE RemoveTransientFiles
  BY <1>2 DEF RemoveTransientFiles, NoPrefixFiles
<1>3. CASE Plan
  BY <1>1, <1>3 DEF Plan, Keys
<1>4. CASE WriteNetdev
  <2>1. CASE todo = <<>>
    BY <1>1, <1>4, <2>1, RangeEmpty DEF WriteNetdev
  <2>2. CASE todo # <<>>
    <3>1. Head(todo) \in Keys(req) /\ Range(todo) = Range(Tail(todo)) \cup {Head(todo)}
      BY <1>1, <1>4, <2>2, RangeTail DEF WriteNetdev, Looping
    <3> QED BY <1>1, <1>4, <2>2, <3>1 DEF WriteNetdev
  <2> QED BY <2>1, <2>2
<1>5. CASE WriteNetwork \/ WriteStub
  BY <1>1, <1>5 DEF WriteNetwork, WriteStub
<1>6. CASE UNCHANGED <<netdev, call>>
  BY <1>1, <1>6
<1>7. CASE pc' \notin {"plan", "netdev", "network", "stub", "catchall", "dns"}
  BY <1>7
<1>8. CASE WriteCatchall \/ WriteResolved
  BY <1>1, <1>8 DEF WriteCatchall, WriteResolved
<1> QED
  BY <1>2, <1>3, <1>4, <1>5, <1>6, <1>7, <1>8
  DEF Next, vars, Receive, RestartNetworkd, RestartResolved, IoError, Crash,
      NetworkdRestarts, Reboot

\* The link files written so far: first the listed devices, then the stubs.
LEMMA NetworkSteps ==
  ASSUME TypeOK, Inv, [Next]_vars
  PROVE  NetworkFiles'
<1> USE DEF NetworkFiles
<1>1. /\ NetworkFiles /\ Looping /\ todo \in Seq(Links)
      /\ network \in [Links -> Profiles \cup {None}]
      /\ pc # "idle" => req \in Configs
  BY DEF Inv, TypeOK, FileTypes, CallTypes
<1>2. CASE RemoveTransientFiles
  BY <1>2 DEF RemoveTransientFiles, NoPrefixFiles, call, files
<1>3. CASE Plan
  BY <1>1, <1>3 DEF Plan, Idle, files
<1>4. CASE WriteNetdev
  BY <1>1, <1>4 DEF WriteNetdev, Listed, NoFiles, Keys
<1>5. CASE WriteNetwork
  <2>1. req' = req /\ req \in Configs /\ pc = "network"
    BY <1>1, <1>5 DEF WriteNetwork, Idle
  <2>2. CASE todo = <<>>
    <3>1. \A n \in Links : network[n] = Listed(req)[n]
      BY <1>1, <2>1, <2>2, RangeEmpty
    <3>2. pc' = "stub" /\ todo' = req.keys /\ network' = network
      BY <1>5, <2>2 DEF WriteNetwork
    <3>3. \A n \in Links : n \notin StubBases(req) => Wanted(req)[n] = Listed(req)[n]
      BY DEF Wanted
    <3>4. \A n \in StubBases(req) : \E v \in Range(req.keys) : Parent[v] = n
      BY DEF StubBases, Keys
    <3> QED BY <2>1, <3>1, <3>2, <3>3, <3>4
  <2>3. CASE todo # <<>> /\ Head(todo) \notin req.broken
    <3> DEFINE h == Head(todo)
    <3>1. /\ pc' = "network" /\ todo' = Tail(todo)
          /\ network' = [network EXCEPT ![h] = OwnProfile(req, h)]
      BY <1>5, <2>1, <2>3 DEF WriteNetwork
    <3>2. h \in Keys(req) /\ h \in Links /\ Range(todo) = Range(Tail(todo)) \cup {h}
      BY <1>1, <2>1, <2>3, RangeTail DEF Looping
    <3>3. Listed(req)[h] = OwnProfile(req, h)
      BY <3>2 DEF Listed
    <3> HIDE DEF h
    <3> QED BY <1>1, <2>1, <3>1, <3>2, <3>3
  <2>4. CASE todo # <<>> /\ Head(todo) \in req.broken
    BY <1>5, <2>4 DEF WriteNetwork, Idle
  <2> QED BY <2>2, <2>3, <2>4
<1>6. CASE WriteStub
  <2>1. req' = req /\ req \in Configs /\ pc = "stub"
    BY <1>1, <1>6 DEF WriteStub
  <2>2. CASE todo = <<>>
    <3>1. \A n \in Links : network[n] = Wanted(req)[n]
      BY <1>1, <2>1, <2>2, RangeEmpty
    <3>2. network = Wanted(req)
      BY <1>1, <3>1 DEF Wanted
    <3> QED BY <1>6, <2>1, <2>2, <3>2 DEF WriteStub
  <2>3. CASE todo # <<>>
    <3> DEFINE b == Parent[Head(todo)]
    <3>1. /\ pc' = "stub" /\ todo' = Tail(todo)
          /\ network' = IF b \in StubBases(req)
                          THEN [network EXCEPT ![b] = StubProfile(req, b)] ELSE network
      BY <1>6, <2>1, <2>3 DEF WriteStub
    <3>2. Range(todo) = Range(Tail(todo)) \cup {Head(todo)}
      BY <1>1, <2>3, RangeTail
    <3>3. b \in StubBases(req) => b \in Links /\ Wanted(req)[b] = StubProfile(req, b)
      BY <2>1, ParentsAreLinks DEF Wanted
    <3>4. ASSUME NEW n \in Links, n # b
          PROVE  network'[n] = Wanted(req)[n]
                   \/ (n \in StubBases(req) /\ \E v \in Range(Tail(todo)) : Parent[v] = n)
      BY <1>1, <2>1, <3>1, <3>2, <3>4
    <3>5. b \in Links => network'[b] = Wanted(req)[b]
      <4>1. b \in StubBases(req) => network'[b] = StubProfile(req, b)
        BY <1>1, <3>1, <3>3
      <4>2. b \notin StubBases(req) /\ b \in Links => network'[b] = Wanted(req)[b]
        BY <1>1, <2>1, <3>1
      <4> QED BY <3>3, <4>1, <4>2
    <3> HIDE DEF b
    <3> QED BY <2>1, <3>1, <3>4, <3>5
  <2> QED BY <2>2, <2>3
<1>7. CASE WriteCatchall
  BY <1>1, <1>7 DEF WriteCatchall
<1>8. CASE pc' \in {"idle", "remove", "restart", "resolved"}
  BY <1>8
<1>9. CASE UNCHANGED <<network, call>>
  BY <1>1, <1>9 DEF call, Wanted, Listed
<1> QED
  BY <1>2, <1>3, <1>4, <1>5, <1>6, <1>7, <1>8, <1>9
  DEF Next, vars, files, call, Idle, Receive, WriteResolved, RestartNetworkd, RestartResolved,
      IoError, Crash, NetworkdRestarts, Reboot

\* From the last write to the next call the files are those of the request.
LEMMA WrittenSteps ==
  ASSUME TypeOK, Inv, [Next]_vars
  PROVE  Written'
<1> USE DEF Written, Answered
<1>1. /\ Written /\ Planned /\ NetdevFiles /\ NetworkFiles /\ CatchallFile
      /\ dns \in BOOLEAN
  BY DEF Inv, TypeOK, FileTypes
<1>2. CASE RemoveTransientFiles
  BY <1>2 DEF RemoveTransientFiles, NoPrefixFiles, Complete, Empty, NoFiles, files, call
<1>3. CASE WriteResolved
  BY <1>1, <1>3
  DEF WriteResolved, Idle, Planned, NetdevFiles, NetworkFiles, CatchallFile, Complete, Accepted,
      Empty, VlanKeys, Wanted, Listed, Excludes
<1>4. CASE RestartNetworkd \/ RestartResolved
  <2>1. UNCHANGED <<files, req>> /\ Complete(req)
    BY <1>1, <1>4 DEF RestartNetworkd, RestartResolved, Idle
  <2> QED BY <2>1 DEF Complete, files, NoFiles, Accepted
<1>5. CASE UNCHANGED <<files, call, outcome>>
  BY <1>1, <1>5 DEF Complete, files, call, NoFiles, Accepted
<1>6. CASE pc' \notin {"restart", "resolved"} /\ ~Answered'
  BY <1>6
<1>7. CASE Plan \/ WriteNetdev \/ WriteNetwork \/ WriteStub \/ WriteCatchall
  BY <1>6, <1>7 DEF Plan, WriteNetdev, WriteNetwork, WriteStub, WriteCatchall, Idle
<1> QED
  BY <1>2, <1>3, <1>4, <1>5, <1>6, <1>7
  DEF Next, vars, Receive, Idle, IoError, Crash, NetworkdRestarts, Reboot

\* What the daemons run is what they loaded when they last restarted.
LEMMA RestartSteps ==
  ASSUME TypeOK, Inv, [Next]_vars
  PROVE  Loading' /\ Resolving'
<1> USE DEF Answered, Idle
<1>1. /\ Loading /\ Resolving /\ Calling
      /\ pc # "idle" => req \in Configs
  BY DEF Inv, TypeOK, CallTypes
<1>2. CASE RestartNetworkd
  <2>1. Resolving'
    BY <1>2 DEF RestartNetworkd, Resolving
  <2>2. UNCHANGED files => \A n : Loaded(n)' = Loaded(n)
    BY DEF files, Loaded
  <2>3. Loading'
    BY <1>2, <2>2 DEF RestartNetworkd, Loading
  <2> QED BY <2>1, <2>3
<1>3. CASE RestartResolved
  <2>1. UNCHANGED files => \A n : Loaded(n)' = Loaded(n)
    BY DEF files, Loaded
  <2>2. Loading'
    BY <1>1, <1>3, <2>1 DEF RestartResolved, Loading
  <2>3. Resolving'
    BY <1>1, <1>3 DEF RestartResolved, Resolving, files
  <2> QED BY <2>2, <2>3
<1>4. CASE NetworkdRestarts
  <2>1. UNCHANGED files => \A n : Loaded(n)' = Loaded(n)
    BY DEF files, Loaded
  <2>2. Loading'
    BY <1>4, <2>1 DEF NetworkdRestarts, Loading
  <2>3. Resolving'
    BY <1>1, <1>4 DEF NetworkdRestarts, Resolving, files, call
  <2> QED BY <2>2, <2>3
<1>5. CASE UNCHANGED vars
  BY <1>1, <1>5 DEF Loading, Resolving, Loaded, vars, files, daemons, call
<1>6. CASE pc' # "resolved" /\ ~Answered'
  BY <1>6 DEF Loading, Resolving
<1>7. CASE Receive \/ IoError \/ Crash \/ Reboot
  BY <1>6, <1>7 DEF Receive, IoError, Crash, Reboot
<1>8. CASE RemoveTransientFiles \/ Plan \/ WriteNetdev \/ WriteNetwork
  BY <1>6, <1>8 DEF RemoveTransientFiles, Plan, WriteNetdev, WriteNetwork, call
<1>9. CASE WriteStub \/ WriteCatchall \/ WriteResolved
  BY <1>6, <1>9 DEF WriteStub, WriteCatchall, WriteResolved
<1> QED
  BY <1>2, <1>3, <1>4, <1>5, <1>7, <1>8, <1>9 DEF Next

\* How far the files have come is read off pc and todo in every state.
LEMMA Invariant == Spec => []Inv
<1>1. Init => Inv
  <2>1. Init => Calling /\ Planned /\ Looping /\ NetdevFiles /\ CatchallFile
    BY DEF Init, Calling, Planned, Looping, NetdevFiles, CatchallFile
  <2>2. Init => NetworkFiles /\ Written /\ Loading /\ Resolving
    BY DEF Init, NetworkFiles, Written, Loading, Resolving, Answered
  <2> QED BY <2>1, <2>2 DEF Inv
<1>2. TypeOK /\ Inv /\ [Next]_vars => Inv'
  BY CallSteps, LoopSteps, NetdevSteps, NetworkSteps, WrittenSteps, RestartSteps DEF Inv
<1> QED
  BY <1>1, <1>2, TypeCorrect, PTL DEF Spec

----------------------------------------------------------------------------
\* At any moment, also between two writes and over what a failed call left, the
\* files name one default gateway at most.
THEOREM OneGateway == Spec => []OneDefaultGateway
<1>1. Init => OneDefaultGateway
  BY DEF Init, OneDefaultGateway, NoFiles
<1>2. ASSUME TypeOK, Inv, OneDefaultGateway, [Next]_vars PROVE OneDefaultGateway'
  <2> USE DEF OneDefaultGateway
  <2>1. /\ OneDefaultGateway /\ NetworkFiles /\ Looping /\ todo \in Seq(Links)
        /\ network \in [Links -> Profiles \cup {None}]
        /\ pc # "idle" => req \in Configs
    BY <1>2 DEF Inv, TypeOK, FileTypes, CallTypes
  <2>2. CASE RemoveTransientFiles
    BY <2>1, <2>2 DEF RemoveTransientFiles, RemovePrefixed, files
  <2>3. CASE WriteNetwork
    <3>1. CASE UNCHANGED network
      BY <2>1, <3>1
    <3>2. CASE /\ todo # <<>>
               /\ network' = [network EXCEPT ![Head(todo)] = OwnProfile(req, Head(todo))]
      <4> DEFINE h == Head(todo)
      <4>1. \A n \in Links : network[n] # None /\ network[n].gw => n = PickGatewayOwner(req)
        <5> SUFFICES ASSUME NEW n \in Links, network[n] # None, network[n].gw
                     PROVE  n = PickGatewayOwner(req)
          OBVIOUS
        <5>1. network[n] = Listed(req)[n]
          BY <2>1, <2>3 DEF WriteNetwork, NetworkFiles
        <5>2. network[n] = OwnProfile(req, n)
          BY <5>1 DEF Listed
        <5> QED BY <5>2, OwnFields
      <4>2. h \in Links /\ (OwnProfile(req, h).gw => h = PickGatewayOwner(req))
        BY <2>1, <3>2, RangeTail, OwnFields
      <4> HIDE DEF h
      <4>3. \A n \in Links : network'[n] # None /\ network'[n].gw => n = PickGatewayOwner(req)
        BY <2>1, <3>2, <4>1, <4>2 DEF h
      <4> QED BY <4>3
    <3> QED BY <2>3, <3>1, <3>2 DEF WriteNetwork
  <2>4. CASE WriteStub
    <3>1. CASE UNCHANGED network
      BY <2>1, <3>1
    <3>2. ASSUME NEW b \in Links, network' = [network EXCEPT ![b] = StubProfile(req, b)]
          PROVE  OneDefaultGateway'
      <4>1. ~network'[b].gw
        BY <2>1, <3>2, StubFields
      <4>2. \A n \in Links : n # b => network'[n] = network[n]
        BY <2>1, <3>2
      <4> QED BY <2>1, <4>1, <4>2
    <3>3. StubBases(req) \subseteq Links
      BY <2>1, <2>4, ParentsAreLinks DEF WriteStub
    <3> QED BY <2>4, <3>1, <3>2, <3>3 DEF WriteStub
  <2>5. CASE Reboot
    BY <2>5 DEF Reboot, NoFiles
  <2>6. CASE UNCHANGED network
    BY <2>1, <2>6
  <2> QED
    BY <1>2, <2>2, <2>3, <2>4, <2>5, <2>6
    DEF Next, vars, files, Receive, Plan, WriteNetdev, WriteCatchall, WriteResolved,
        RestartNetworkd, RestartResolved, IoError, Crash, NetworkdRestarts
<1> QED
  BY <1>1, <1>2, TypeCorrect, Invariant, PTL DEF Spec

----------------------------------------------------------------------------
(* The files on disk come from one configuration, never from two.          *)

OfCall(c) ==
  /\ \A n \in Links : network[n] \in {None, Listed(c)[n], Wanted(c)[n]}
  /\ netdev \subseteq VlanKeys(c)
  /\ catchall \in {None, Excludes(c)}
  /\ dns => c.dns
NothingThere == network = NoFiles /\ netdev = {} /\ catchall = None /\ dns = FALSE

\* Whatever call was cut short by an error, a rejection or a crash, and however
\* many there were: the files are all of one of them.
FilesOfOneCall == NothingThere \/ \E c \in Configs : OfCall(c)

WritesItsOwn ==
  pc \in {"plan", "netdev", "network", "stub", "catchall", "dns"} => OfCall(req)

\* An empty directory is the beginning of any call.
LEMMA NothingIsOfAnyCall == \A c \in Configs : NothingThere => OfCall(c)
  BY DEF NothingThere, OfCall, NoFiles

\* The removal takes files away, so what is left is still of the same call.
LEMMA RemovingKeepsSource ==
  ASSUME TypeOK, RemoveTransientFiles, NEW c \in Configs, OfCall(c)
  PROVE  OfCall(c)'
<1>1. network \in [Links -> Profiles \cup {None}] /\ dns \in BOOLEAN
  BY DEF TypeOK, FileTypes
<1>2. (\A n \in Links : network'[n] \in {None, network[n]}) /\ netdev' \subseteq netdev
      /\ catchall' \in {None, catchall} /\ (dns' => dns)
  BY <1>1 DEF RemoveTransientFiles, RemovePrefixed, files
<1>3. Listed(c)' = Listed(c) /\ Wanted(c)' = Wanted(c)
  BY DEF Listed, Wanted
<1> QED BY <1>2, <1>3 DEF OfCall

\* Each write adds a file of the call in progress.
LEMMA WritingKeepsSource ==
  ASSUME TypeOK, Inv, WritesItsOwn, [Next]_vars
  PROVE  WritesItsOwn'
<1>1. /\ network \in [Links -> Profiles \cup {None}]
      /\ pc # "idle" => req \in Configs
      /\ todo \in Seq(Links)
      /\ NetdevFiles /\ Looping
  BY DEF TypeOK, FileTypes, CallTypes, Inv
<1>2. CASE RemoveTransientFiles
  <2>1. CASE pc' = "plan"
    <3>1. NothingThere' /\ req' \in Configs
      BY <1>1, <1>2, <2>1, NoneAssumption
      DEF RemoveTransientFiles, NoPrefixFiles, NothingThere, NoFiles, call, files, TypeOK,
          FileTypes
    <3>2. OfCall(req)'
      BY <3>1 DEF NothingThere, OfCall, NoFiles
    <3> QED BY <3>2 DEF WritesItsOwn
  <2>2. CASE pc' # "plan"
    BY <1>2, <2>2 DEF RemoveTransientFiles, WritesItsOwn, call
  <2> QED BY <2>1, <2>2
<1>3. CASE Plan
  BY <1>3 DEF Plan, Idle, WritesItsOwn, OfCall, files
<1>4. CASE WriteNetdev
  <2>1. OfCall(req) /\ UNCHANGED <<network, catchall, dns, req>>
    BY <1>4 DEF WriteNetdev, WritesItsOwn
  <2>2. netdev' \subseteq VlanKeys(req)
    <3>1. todo # <<>> => Head(todo) \in Keys(req)
      BY <1>1, <1>4, RangeTail DEF WriteNetdev, Looping
    <3> QED BY <1>4, <2>1, <3>1 DEF WriteNetdev, OfCall, VlanKeys
  <2> QED BY <2>1, <2>2 DEF WritesItsOwn, OfCall
<1>5. CASE WriteNetwork
  <2>1. OfCall(req) /\ UNCHANGED <<netdev, catchall, dns, req>> /\ req \in Configs
    BY <1>1, <1>5 DEF WriteNetwork, Idle, WritesItsOwn
  <2>2. \A n \in Links : network'[n] \in {network[n], Listed(req)[n]}
    <3>1. todo # <<>> => Head(todo) \in Keys(req) /\ Head(todo) \in Links
      BY <1>1, <1>5, RangeTail DEF WriteNetwork, Looping
    <3> QED BY <1>1, <1>5, <3>1 DEF WriteNetwork, Listed
  <2> QED BY <2>1, <2>2 DEF WritesItsOwn, OfCall
<1>6. CASE WriteStub
  <2>1. OfCall(req) /\ UNCHANGED <<netdev, catchall, dns, req>> /\ req \in Configs
    BY <1>1, <1>6 DEF WriteStub, WritesItsOwn
  <2>2. \A n \in Links : network'[n] \in {network[n], Wanted(req)[n]}
    BY <1>1, <1>6 DEF WriteStub, Wanted
  <2> QED BY <2>1, <2>2 DEF WritesItsOwn, OfCall
<1>7. CASE WriteCatchall
  BY <1>7 DEF WriteCatchall, WritesItsOwn, OfCall
<1>8. CASE WriteResolved
  BY <1>8 DEF WriteResolved, Idle, WritesItsOwn
<1>9. CASE pc' \in {"idle", "remove", "restart", "resolved"}
  BY <1>9 DEF WritesItsOwn
<1>10. CASE UNCHANGED <<files, call>>
  BY <1>10 DEF WritesItsOwn, OfCall, files, call
<1> QED
  BY <1>2, <1>3, <1>4, <1>5, <1>6, <1>7, <1>8, <1>9, <1>10
  DEF Next, vars, Idle, Receive, RestartNetworkd, RestartResolved, IoError, Crash,
      NetworkdRestarts, Reboot

\* Whenever networkd or resolved is restarted, also in the middle of a call, it
\* finds files of one configuration, never the remains of one among another's.
THEOREM NoMixture == Spec => []FilesOfOneCall
<1>1. Init => FilesOfOneCall /\ WritesItsOwn
  BY DEF Init, FilesOfOneCall, NothingThere, WritesItsOwn
<1>2. ASSUME TypeOK, Inv, WritesItsOwn, FilesOfOneCall, [Next]_vars
      PROVE  FilesOfOneCall'
  <2>1. WritesItsOwn' /\ (pc # "idle" => req \in Configs)
    BY <1>2, WritingKeepsSource DEF TypeOK, CallTypes
  <2>2. CASE RemoveTransientFiles
    <3>1. PICK c : NothingThere \/ (c \in Configs /\ OfCall(c))
      BY <1>2 DEF FilesOfOneCall
    <3>2. req \in Configs
      BY <2>1, <2>2 DEF RemoveTransientFiles
    <3>3. \E d \in Configs : OfCall(d)
      BY <3>1, <3>2, NothingIsOfAnyCall
    <3>4. \E d \in Configs : OfCall(d)'
      BY <1>2, <2>2, <3>3, RemovingKeepsSource
    <3> QED BY <3>4 DEF FilesOfOneCall
  <2>3. CASE Plan \/ WriteNetdev \/ WriteNetwork \/ WriteStub \/ WriteCatchall \/ WriteResolved
    <3>1. OfCall(req) /\ req \in Configs
      BY <1>2, <2>1, <2>3
      DEF WritesItsOwn, Plan, WriteNetdev, WriteNetwork, WriteStub, WriteCatchall, WriteResolved
    <3>2. CASE UNCHANGED files
      BY <3>1, <3>2 DEF FilesOfOneCall, OfCall, files
    <3>3. CASE pc' \in {"plan", "netdev", "network", "stub", "catchall", "dns"} /\ req' = req
      <4>1. OfCall(req)'
        BY <2>1, <3>3 DEF WritesItsOwn
      <4> QED BY <3>1, <3>3, <4>1 DEF FilesOfOneCall, OfCall
    <3>4. CASE /\ pc = "dns" /\ pc' = "restart" /\ dns' = req.dns
               /\ UNCHANGED <<network, netdev, catchall>>
      BY <3>1, <3>4 DEF FilesOfOneCall, OfCall
    <3> QED
      BY <2>3, <3>2, <3>3, <3>4
      DEF Plan, WriteNetdev, WriteNetwork, WriteStub, WriteCatchall, WriteResolved, Idle, files
  <2>4. CASE Reboot
    BY <2>4 DEF Reboot, FilesOfOneCall, NothingThere, NoFiles
  <2>5. CASE UNCHANGED files
    BY <1>2, <2>5 DEF FilesOfOneCall, NothingThere, OfCall, NoFiles, files
  <2> QED
    BY <1>2, <2>2, <2>3, <2>4, <2>5
    DEF Next, vars, Receive, RestartNetworkd, RestartResolved, IoError, Crash, NetworkdRestarts
<1> QED
  BY <1>1, <1>2, WritingKeepsSource, TypeCorrect, Invariant, PTL DEF Spec

----------------------------------------------------------------------------
(* What networkd has loaded, link by link, once a call is answered.        *)

\* Who gets the gateway of a configuration that is not rejected for it.
LEMMA GatewayOwner ==
  ASSUME NEW c \in Configs, Accepted(c)
  PROVE  /\ c.dw = "absent" \/ Static(c) = {} => PickGatewayOwner(c) = None
         /\ c.dw # "absent" /\ Static(c) # {} => PickGatewayOwner(c) \in Static(c)
         /\ c.dw = "address" /\ Near(c) # {} => PickGatewayOwner(c) \in Near(c)
<1> DEFINE near == First(c, Near(c) \cup c.broken)
           static == First(c, Static(c) \cup c.broken)
<1>1. Near(c) \subseteq Static(c) /\ Static(c) \subseteq Keys(c) /\ None \notin Keys(c)
  BY KeysOfLinks, NoneAssumption DEF Near, Static
<1>2. \/ near = None /\ Near(c) = {}
      \/ near \in Near(c) \cup c.broken /\ near # None
  BY <1>1, FirstIn
<1>3. \/ static = None /\ Static(c) = {}
      \/ static \in Static(c) \cup c.broken /\ static # None
  BY <1>1, FirstIn
<1>4. PickGatewayOwner(c) = IF c.dw = "absent" THEN None
                            ELSE IF c.dw = "address" /\ near # None THEN near ELSE static
  BY DEF PickGatewayOwner
<1> HIDE DEF near, static
<1> QED BY <1>1, <1>2, <1>3, <1>4 DEF Accepted

\* A link with a file of its own runs what that file says, any other no profile.
LEMMA LoadedProfile ==
  ASSUME NEW n \in Links, network \in [Links -> Profiles \cup {None}]
  PROVE  /\ network[n] # None => OnDisk[n] = network[n] /\ Managed(OnDisk, n)
         /\ network[n] = None => OnDisk[n] = Loaded(n) /\ ~Managed(OnDisk, n)
BY ProfilesAssumption DEF Loaded, OnDisk, Managed

\* A call that was answered without an error has left files that say all of its
\* document, and the daemons run them unless systemctl has failed: for every
\* document, also one that lists a VLAN of a VLAN, whose outer VLAN alone then
\* runs as an unlisted parent.
THEOREM AcceptedConfigurationApplied == Spec => []AcceptedIsApplied
<1>1. ASSUME TypeOK, Inv, Answered PROVE Configured(OnDisk) /\ dns = req.dns
  <2>1. /\ network \in [Links -> Profiles \cup {None}]
        /\ Complete(req) /\ req \in Configs
    BY <1>1 DEF Inv, TypeOK, FileTypes, Written, Resolving
  <2>2. CASE Empty(req)
    <3>1. network = NoFiles /\ netdev = {} /\ catchall = None /\ dns = FALSE
      BY <2>1, <2>2 DEF Complete
    <3>2. req.dns = FALSE
      BY <2>1, <2>2, ConfigsAssumption DEF Empty
    <3>3. OnDisk = Default
      BY <3>1 DEF Default, NoFiles, Loaded, OnDisk
    <3> QED BY <2>2, <3>1, <3>2, <3>3 DEF Configured
  <2>3. CASE ~Empty(req)
    <3>1. /\ Accepted(req) /\ dns = req.dns /\ network = Wanted(req)
          /\ netdev = VlanKeys(req) /\ catchall = Excludes(req)
      BY <2>1, <2>3 DEF Complete
    <3>2. Keys(req) \subseteq Links /\ StubBases(req) \subseteq Links
      BY <2>1, KeysOfLinks, ParentsAreLinks
    <3>3. ASSUME NEW n \in Keys(req) \ Overwritten(req)
          PROVE  OnDisk[n] = OwnProfile(req, n) /\ Managed(OnDisk, n)
      <4>1. network[n] = OwnProfile(req, n) /\ OwnProfile(req, n) \in Profiles
        BY <2>1, <3>1, <3>2, ProfileTypes DEF Wanted, Listed, Overwritten
      <4> QED BY <2>1, <3>2, <4>1, LoadedProfile, ProfilesAssumption
    <3>4. ASSUME NEW n \in StubBases(req)
          PROVE  OnDisk[n] = StubProfile(req, n) /\ Managed(OnDisk, n)
      <4>1. network[n] = StubProfile(req, n) /\ StubProfile(req, n) \in Profiles
        BY <2>1, <3>1, <3>2, ProfileTypes DEF Wanted
      <4> QED BY <2>1, <3>2, <4>1, LoadedProfile, ProfilesAssumption
    <3>5. ASSUME NEW n \in Links, n \notin Keys(req), n \notin StubBases(req)
          PROVE  network[n] = None /\ OnDisk[n] = Loaded(n) /\ ~Managed(OnDisk, n)
      <4>1. network[n] = None
        BY <3>1, <3>5 DEF Wanted, Listed
      <4> QED BY <2>1, <4>1, LoadedProfile
    <3>6. ListedLinksConfigured(OnDisk)
      BY <3>3, OwnFields DEF ListedLinksConfigured, Overwritten
    <3>7. VlansAttached(OnDisk)
      <4> SUFFICES ASSUME NEW v \in Keys(req), IsVlan(v)
                   PROVE  /\ v \in netdev /\ Managed(OnDisk, Parent[v])
                          /\ v \in OnDisk[Parent[v]].vlans
        BY DEF VlansAttached
      <4>1. v \in netdev /\ v \in Children(req, Parent[v])
        BY <3>1 DEF VlanKeys, Children
      <4>2. Parent[v] \in StubBases(req) \/ Parent[v] \in ExplicitBases(req)
        BY DEF StubBases
      <4>3. CASE Parent[v] \in StubBases(req)
        BY <3>4, <4>1, <4>3, StubFields
      <4>4. CASE Parent[v] \in ExplicitBases(req)
        <5>1. Parent[v] \in Keys(req) \ Overwritten(req)
          BY <4>4 DEF ExplicitBases, StubBases, Overwritten
        <5> QED BY <3>3, <4>1, <4>4, <5>1, OwnFields DEF ExplicitBases
      <4> QED BY <4>2, <4>3, <4>4
    <3>8. OtherEthernetDown(OnDisk)
      <4> SUFFICES ASSUME NEW n \in Ethernet \ Keys(req)
                   PROVE  IF Children(req, n) # {}
                            THEN Managed(OnDisk, n) /\ OnDisk[n].addr = {}
                            ELSE OnDisk[n] = Down
        BY DEF OtherEthernetDown
      <4>1. n \in Links /\ n # None
        BY EthernetAssumption, NoneAssumption
      <4>2. Children(req, n) # {} <=> n \in StubBases(req)
        BY <4>1 DEF Children, StubBases, ExplicitBases, IsVlan
      <4>3. CASE n \in StubBases(req)
        BY <3>4, <4>2, <4>3, StubFields
      <4>4. CASE n \notin StubBases(req)
        <5>1. catchall # None /\ n \notin catchall
          <6>1. Excludes(req) \subseteq Links
            BY <2>1, <3>2, ParentsAreLinks DEF Excludes
          <6>2. n \notin Excludes(req)
            BY <4>4 DEF Excludes, ExplicitBases
          <6> QED BY <3>1, <6>1, <6>2, NoneAssumption
        <5>2. Loaded(n) = Down
          BY <3>5, <4>1, <4>4, <5>1 DEF Loaded
        <5> QED BY <3>5, <4>1, <4>2, <4>4, <5>2
      <4> QED BY <4>3, <4>4
    <3>9. GatewayPlaced(OnDisk)
      <4> DEFINE owners == {n \in Links : Managed(OnDisk, n) /\ OnDisk[n].gw}
      <4>1. ASSUME NEW n \in Links
            PROVE  n \in owners <=>
                     n \in Keys(req) \ Overwritten(req) /\ n = PickGatewayOwner(req)
        <5>1. CASE n \in Keys(req) \ Overwritten(req)
          BY <3>3, <5>1, OwnFields
        <5>2. CASE n \in StubBases(req)
          BY <3>4, <5>2, StubFields DEF Overwritten
        <5>3. CASE n \notin Keys(req) /\ n \notin StubBases(req)
          BY <3>5, <5>3
        <5> QED BY <5>1, <5>2, <5>3 DEF Overwritten
      <4>2. Static(req) \subseteq Keys(req) /\ Near(req) \subseteq Static(req)
        BY DEF Static, Near
      <4>3. req.dw = "absent" \/ Static(req) = {} => owners = {}
        BY <2>1, <3>1, <3>2, <4>1, GatewayOwner, NoneAssumption
      <4>4. req.dw # "absent" /\ Static(req) # {} =>
              /\ PickGatewayOwner(req) \in Static(req)
              /\ owners = {PickGatewayOwner(req)} \ Overwritten(req)
        BY <2>1, <3>1, <3>2, <4>1, <4>2, GatewayOwner
      <4>5. req.dw = "address" /\ Near(req) # {} => PickGatewayOwner(req) \in Near(req)
        BY <2>1, <3>1, GatewayOwner
      <4> HIDE DEF owners
      <4>6. IF req.dw = "absent" \/ Static(req) = {} THEN owners = {}
            ELSE \E n \in Static(req) :
                   /\ owners = {n} \ Overwritten(req)
                   /\ req.dw = "address" /\ Near(req) # {} => n \in Near(req)
        BY <4>3, <4>4, <4>5
      <4> QED BY <4>6 DEF GatewayPlaced, owners
    <3> QED BY <2>3, <3>1, <3>6, <3>7, <3>8, <3>9 DEF Configured
  <2> QED BY <2>2, <2>3
<1>2. TypeOK /\ Inv => AcceptedIsApplied
  BY <1>1 DEF AcceptedIsApplied, Answered, Inv, Loading, Resolving, OnDisk
<1> QED
  BY <1>2, TypeCorrect, Invariant, PTL
=============================================================================
