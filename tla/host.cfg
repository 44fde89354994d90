SPECIFICATION HostSpec
CONSTANTS
  l1 = l1
  x1 = x1
  x2 = x2
  l2 = l2
  l3 = l3
  Prior = Prior
  Stranger = Stranger
  None = None
  small = small
  other = other
  p1 = p1
  v1 = v1
  f1 = f1
  f2 = f2
  PriorConfig = small
  View <- MCView
  Facts <- MCFacts
  Launchers = {l1, l2}
  Configs = {small, other}
  Port <- MCPort
  ProxyOn = {}
  Ops = {"start", "stop", "supersede"}
  Faults = {"deadline", "interrupt", "record", "crash"}
  Parts = {"sidecar", "profile", "gateway", "update", "account"}
  Profiles = {pa, pb}
  Default = pa
  Own = own
  Settings = {s1, s2}
  Arguments = {a1, a2}
  Keys = {k1, k2}
  MaxRouters = 2
  NoValue = NoValue
  Releases = {1, 2, 3}
  VersionOf <- MCVersionOf
  FirstCore <- MCFirstCore
  MaxUpdates = 3
  Versions <- MCVersions
  Accounts = {x1, x2}
  MaxCommands = 3
SYMMETRY Symmetry
CHECK_DEADLOCK FALSE
INVARIANT HostTypeOK
INVARIANT SpawnWhenVacant
INVARIANT RoutersAreKnown
INVARIANT KeyIsOfAccount
PROPERTY OriginalKept
PROPERTY InstallIsWhole
