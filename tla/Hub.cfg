SPECIFICATION Spec
CONSTANTS
  Lines = {"a", "b", "c", "d"}
  KeyOf <- TwoKeys
  Writers = {"w1", "w2"}
  MaxLines = 2
  MaxAge = 1
  MaxClock = 1
  MaxLogFaults = 1
  Events = {"e1"}
  MonthOf <- OneMonth
  Inventories = {"i1"}
  Months = {"jan"}
  Callers = {"c1", "c2"}
  MaxCalls = 2
  MaxStoreFaults = 1
  Values = {1, 2, 3}
  FireAbove = 2
  ResolveBelow = 2
  ForDuration = 1
  ExpectEvery = 1
  Grace = 0
  Routes <- TwoRoutes
  Severity = "critical"
  Burst = 2
  Refill = 1
  MaxTime = 4
  MaxSilences = 1
  Requests = {r1, r2}
  Codes = {c1, c2}
  Hosts = {"h1", "h2"}
  PairingTTL = 1
  MaxWall = 4
  MaxBoots = 2
  RuleDir <- TwoRules
  Builtin = {"cpu_from_context", "core_from_cpu"}
  Messages = {"oom", "segfault", "other"}
  Groups <- CapturedBy
  Sources = {"kernel", "app"}
  CPUDirs <- FiveCPUs
  CPUs = {"cpu0", "cpu1", "cpu2", "cpu3", "cpu4", "cpu9"}
  MinSamples = 5
  MaxLinesSeen = 8
  MonthLength <- UnevenMonths
  Width = 2
  Memory = {1, 2}
  MaxSamples = 4
  Times = {10, 25}
  Now = 31
  HostID = "host"
  Labels = {"container_id", "container_name", "pid", "ip value"}
INVARIANTS
  HubTypeOK
  LineInOnePlace
  NoOrphanMeta
  AckedIsStored
  FiringIsJustified
  CeilingHolds
  ClaimedOnceAndUsable
  FlaggedIsSignificant
  ListFindsItsRange
  ReadsAreExact
  RecordsSurvive
PROPERTY EveryCallReturns
CHECK_DEADLOCK FALSE
