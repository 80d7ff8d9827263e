SPECIFICATION Spec
CONSTANTS
  Collectors = {"cpu", "ups"}
  Requires <- UPSNeedsItsDaemon
  Capabilities = {"power.ups", "hw.pstore"}
  Probes <- HostProbes
  DegradedImpact = {"hw.pstore"}
  MaxConsecutiveTimeouts = 3
  MaxBackoffMultiplier = 3
  MaxErrorCount = 2
  MaxAbandoned = 2
  NumEntries = 3
  MaxEntriesPerCollect = 2
  Calls = {k1, k2}
  MaxJournalFaults = 3
  Capacities = {1, 2}
  MaxRecorded = 4
  MaxBoxFaults = 2
  FileNames = {"spool", "host_id", "cursor"}
  Processes = {w1, w2}
  MaxInodes = 3
  MaxFileFaults = 2
  Tools = {"rclone", "rsync", "snapraid", "true"}
  Codes = {0, 1}
  Streams <- Outputs
  SIGTERM = 15
  SIGKILL = 9
  Devices <- TwoDevices
  MaxCounts <- SmallCounts
  Wrap = 64
  MaxBlockDevices = 1
  MaxSwap = 1
  MaxResets = 2
  Versions <- SomeVersions
  Weight <- ASCII
  PackageLists <- OneOrTwoStanzas
  Digests = {"d1", "d2"}
  MaxLists = 2
  Sections = {"global", "a", "b"}
  Accounts = {"u", "v"}
  MaxSamba = 3
  MaxLines = 2
  Trees <- TwoTrees
  CheckEvery = 3
  StaleAfter = 1
  Rekey = 2
  Interval = 1
  MaxClock = 4
INVARIANT
  AlwaysPropagates
CHECK_DEADLOCK FALSE
