SPECIFICATION FairSpec
CONSTANTS
  stick = stick
  rootfs = rootfs
  share = share
  NoPath = NoPath
  Sticks = {stick}
  Partitions = {rootfs}
  Shares = {share}
  MaxDepth = 2
INVARIANTS
  TypeOK
  TabsMatchTable
PROPERTIES
  TabsConverge
