SPECIFICATION PartsSpec
CONSTANTS
  SyncFile = {1, 2}
  OpsPage = 2
  ManifestPage = 1
  Plans <- SmallPlans
  MaxRelinks = 1
  MaxDropped = 1
  MaxFaults = 1
  OurLine = {1, 2, 3}
  TheirLine = {1, 2, 4}
  MaxLines = 3
  KnownFile = {1, 2}
  FreshFile = {3, 4}
  ForcePath = {1, 2}
  ForceContent = {1, 2}
  MaxOthers = 1
  NotePath = {1, 2, 3}
  NoteText = {1, 2}
  NoteFile = {1, 2}
  MaxEdits = 2
  MaxRestarts = 1
  MaxRemote = 1
  MaxEvents = 0
  MaxTokens = 4
  MaxRequests = 3
  MaxMishaps = 2
  Uploader = {1, 2, 3}
  BlobVault = {1, 2}
  VaultOfUpload <- TwoVaults
  MaxBreaks = 2
  MaxSaves = 4
  MaxCrashesOfIndex = 1
  MaxInWindow = 2
  MaxFailures = 2
  Window = 2
  LoginWindow = 2
  LoginLockout = 3
  MaxLogins = 2
  MaxClock = 5
  Parts = {"watch"}
INVARIANTS
  OneIdPerNote
CHECK_DEADLOCK FALSE
