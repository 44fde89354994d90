SPECIFICATION LaunchSpec
CONSTANTS
  l1 = l1
  l2 = l2
  Prior = Prior
  None = None
  Launchers = {l1, l2}
  Ops = {"start", "stop"}
  Faults = {"interrupt", "record", "deadline", "probe", "hang", "kill", "core", "reuse"}
  Parts = {"hybrid", "plan", "settings"}
  Nothing = Nothing
  Wishes <- MCWishes
  Again <- MCAgain
  Machines <- MCMachines
  Turns <- MCTurns
  Defaults <- MCDefaults
  LocalModel = "lm"
  FoldOf <- MCFoldOf
  ClassOf <- MCClassOf
  ReadOnly = {"Explore"}
  u1 = u1
  u2 = u2
  Users = {u1, u2}
  Second = u2
  Seconds <- MCSeconds
  Catalog <- MCCatalog
  Typed <- MCTyped
  Providers <- MCProviders
  Starts <- MCStarts
  Agents = {"Explore", "plan"}
  Histories <- MCHistories
  Readers = {"plan"}
  MaxCommands = 2
  Broken = Broken
CHECK_DEADLOCK FALSE
INVARIANT LaunchTypeOK
INVARIANT OneSupervisor
INVARIANT FilesTruthful
INVARIANT OutcomesAreTrue
INVARIANT TurnsGoWhereAsked
PROPERTY HybridEnds
PROPERTY ChoicesStand
