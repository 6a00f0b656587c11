\* A wake in the crash recovery.
SPECIFICATION RequestSpec
CONSTANTS
  Settings = {"update_on_container_start", "start_server_on_container_start", "update_on_wake", "update_interval", "wake_arm_delay", "wake_on_port", "auto_sleep", "allow_log_only_idle", "restart_on_crash", "crash_restart_reset"}
  MaxCrashRestarts = 1
  h1 = h1
  c1 = c1
  Clients = {}
  Helpers = {}
  Faults = {"crash"}
PROPERTIES ExplicitRetry
