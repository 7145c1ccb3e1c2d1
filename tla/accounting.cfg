SPECIFICATION Spec
CONSTANTS
  None = None
  Dims <- MCDims
  Ids = {1, 2}
  Storages = {"A", "B"}
  Keys = {"scsi0", "scsi1", "unused0"}
  UnusedKeys = {"unused0"}
  Limit <- MCLimit
  AlarmLimits <- LaterLimits
  GiB = 4
  Mult <- MCMult
  Half = 64
  DefaultMem = 2
  Kept = {1}
  BackupKinds = {"lxc"}
  MaxSize = 6
  Replacing = FALSE
  Requests <- SoundRequests
INVARIANTS DeltaCovers DeltaExact LimitsRespected SameVerdict AlarmExact
