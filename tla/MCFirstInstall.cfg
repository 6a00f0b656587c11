\* START_ON_UPDATE_FAILURE on an empty volume.
SPECIFICATION Spec
CONSTANTS
  Settings = {"update_on_container_start", "start_server_on_container_start", "start_on_update_failure"}
  MaxCrashRestarts = 1
  h1 = h1
  c1 = c1
  Clients = {}
  Helpers = {}
  Faults = {"update"}
PROPERTIES FirstInstallFailsClosed
