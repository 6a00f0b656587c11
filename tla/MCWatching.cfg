\* Six seconds of a server, of packets cut anywhere, of eight hours of updates
\* and of a store whose clock is set and whose writes fail.
SPECIFICATION MCSpec
CONSTANTS
  Players = {"p1"}
  Policies <- ThreePolicies
  MaxServers = 2
  MaxLines = 1
  Packets <- SentPackets
  Sent <- ShortAnswers
  UpdateInterval = 3
  UpdateRetry = 2
  NoStamp = NoStamp
  ScheduleTime = 8
  ScheduleSet = 3
  MaxKills = 2
  States = {"SLEEPING", "ERROR"}
  Data = {0, 1}
  Beat = 1
  Gap = 1
  MaxWait = 3
  MaxAge = 3
  MaxTime = 6
  MaxSet = 2
  MaxFailures = 2
INVARIANTS SleepJustified IdleNotOverlooked PlayersKept LogCountCurrent
  OnlyCaught ReadTruly NotTooLate FileCatchesUp HealthTruthful
PROPERTIES NotTooSoon
CHECK_DEADLOCK FALSE
