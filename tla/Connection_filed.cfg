SPECIFICATION Spec
CONSTANTS
  wifi = wifi
  usb = usb
  base = base
  car = car
  Profile = {wifi, usb}
  Node = {base, car}
  NodeOf <- TwoRadios
  Client = {c1}
  None = None
  NoNode = NoNode
  MaxInterfaces = 2
  MaxConnects = 1
  MayStop = FALSE
  Callbacks = {"established", "lost", "receive"}
INVARIANTS FiledSeparately
CHECK_DEADLOCK FALSE
