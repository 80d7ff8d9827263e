SPECIFICATION RecordsSpec
CONSTANTS
  Times = {10, 25}
  Now = 31
  HostID = "host"
  Labels = {"container_id", "container_name", "pid", "ip value"}
INVARIANTS
  FingerprintSurvives
CHECK_DEADLOCK FALSE
