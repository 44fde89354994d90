SPECIFICATION FairSpec
CONSTANTS
  l1 = l1
  l2 = l2
  l3 = l3
  Prior = Prior
  Stranger = Stranger
  None = None
  small = small
  full = full
  other = other
  p1 = p1
  p2 = p2
  v1 = v1
  v2 = v2
  f1 = f1
  f2 = f2
  f3 = f3
  PriorConfig = full
  View <- MCView
  Facts <- MCFacts
  Launchers = {l1, l2}
  Configs = {small, full, other}
  Port <- MCTwoPorts
  ProxyOn = {full}
  Ops = {"start", "stop", "supersede"}
  Faults = {"deadline", "interrupt", "record", "crash", "probe"}
CHECK_DEADLOCK FALSE
INVARIANT TypeOK
INVARIANT SpawnWhenVacant
INVARIANT MetaDescribesPid
INVARIANT EditsOwnMeta
INVARIANT ReuseMatchesRequest
PROPERTY CommandsEnd
