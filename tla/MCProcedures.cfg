\* Two images, three containers, every fault; two faults while configuring; two
\* updates, one of which meets an error; four backups, one of which is killed.
SPECIFICATION MCSpec
CONSTANTS
  Versions = {1, 2}
  MaxLives = 3
  MaxWineFaults = 4
  Text <- AnyText
  Hidden <- NoKeys
  Files <- SomeFiles
  Templates <- TwoTemplates
  Settings <- EightSettings
  Managed <- ThreeManaged
  Generated <- ThreePasswords
  MaxFaults = 2
  MaxAgain = 2
  Faults = {"unkillable", "wine", "reader"}
  MaxCalls = 3
  MaxUpdates = 2
  MaxErrors = 1
  KeepBackups = {0, 1, 2}
  MaxTime = 5
  MaxBackups = 4
  MaxKills = 1
INVARIANTS PrefixSound Applied PasswordKnown SignalsOwnGroup WineChecked ArchivesKept
PROPERTIES PreparedAtLast Preserved Stable ImplementsContract ImplementsUpdate
CHECK_DEADLOCK FALSE
