SPECIFICATION Spec
CONSTANTS
  l1 = l1
  l2 = l2
  l3 = l3
  Prior = Prior
  Stranger = Stranger
  None = None
  small = small
  full = full
  other = other
  p1 = p1
  p2 = p2
  v1 = v1
  v2 = v2
  f1 = f1
  f2 = f2
  f3 = f3
  PriorConfig = full
  View <- MCView
  Facts <- MCFacts
  Launchers = {l1, l2, l3}
  Configs = {small, full, other}
  Port <- MCPort
  ProxyOn = {}
  Ops = {"start"}
  Faults = {"interrupt", "crash", "probe"}
CHECK_DEADLOCK FALSE
SYMMETRY Symmetry
INVARIANT OneDaemon
INVARIANT LiveDaemonRecorded
PROPERTY RegistryImplemented
