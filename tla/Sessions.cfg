\* Two request threads over one device, a link and three tokens, one of them
\* maybe from before tokens were bound to a device.
SPECIFICATION Spec
CONSTANTS
  Devices = {d1}
  Unknown = unknown
  Threads = {t1, t2}
  Links = {l1}
  Legacy = 1
  MaxTokens = 3
  None = None
SYMMETRY Symm
INVARIANTS
  NoLateSuccessor
  NoLateConsumer
  SweepComplete
  RotationKeepsDevice
CHECK_DEADLOCK FALSE
