SPECIFICATION Spec
CONSTANTS
  None = None
  Down = Down
  Dhcp = Dhcp
  Unmanaged = Unmanaged
  eth0 = eth0
  eth1 = eth1
  wlan0 = wlan0
  vlan = vlan
  inner = inner
  Links <- MCLinks
  Parent <- MCParent
  Ethernet <- MCEthernet
  Configs <- MCConfigs
  RestartFails = TRUE
INVARIANTS
  TypeOK
  AcceptedIsApplied
  OneDefaultGateway
