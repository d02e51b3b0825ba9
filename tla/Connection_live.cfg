SPECIFICATION FairSpec
CONSTANTS
  wifi = wifi
  usb = usb
  base = base
  car = car
  Profile = {wifi, usb}
  Node = {base}
  NodeOf <- OneRadio
  Client = {c1}
  None = None
  NoNode = NoNode
  MaxInterfaces = 2
  MaxConnects = 2
  MayStop = TRUE
  Callbacks = {"lost"}
PROPERTIES SelectedIsConnected StopReleasesRadio
CHECK_DEADLOCK FALSE
