SPECIFICATION AutomountFairSpec
CONSTANTS
  stick = stick
  camera = camera
  disk = disk
  Media = {stick, camera, disk}
  Unsupported = {disk}
  Label <- MCLabel
  Plain = "sda1"
  SysPaths = {"usb1", "usb2"}
  None = None
  Dead = Dead
  MaxEvents = 2
INVARIANTS AutomountTypeOK CleanAfterRemoval
PROPERTIES LiveMediumStays MountsWhatIsPlugged
