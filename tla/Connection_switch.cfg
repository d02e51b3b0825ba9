SPECIFICATION Spec
CONSTANTS
  wifi = wifi
  usb = usb
  base = base
  car = car
  Profile = {wifi, usb}
  Node = {base}
  NodeOf <- OneRadio
  Client = {c1, c2}
  None = None
  NoNode = NoNode
  MaxInterfaces = 2
  MaxConnects = 2
  MayStop = FALSE
  Callbacks = {"established", "lost", "receive"}
SYMMETRY SameRoles
INVARIANTS InterfaceOfProfile OwnedOnce
CHECK_DEADLOCK FALSE
VIEW Unfiled
