\* A container that starts asleep, driven by signals; two crash restarts.
SPECIFICATION FairSpec
CONSTANTS
  Settings = {"update_interval", "wake_arm_delay", "wake_on_port", "auto_sleep", "restart_on_crash"}
  MaxCrashRestarts = 2
  h1 = h1
  c1 = c1
  Clients = {}
  Helpers = {h1}
  Faults = {"prepare", "update", "spawn", "status", "stop", "crash", "kill"}
INVARIANTS NoQueuedWake
PROPERTIES ShutdownTerminates NeverStartsHalfUpdated
