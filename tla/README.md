# Verification of the No One Survived server supervisor

This directory holds TLA+ specifications of the container supervisor in `src/nos_server/`, the
TLC configurations that check them on small instances, and theorems about them that TLAPS
proves for every value of the constants.

## 1. The system

A container runs one Python process, the *supervisor*. It prepares the data volume, runs
SteamCMD to install and update the game, starts the game under Wine, watches it, stops it when
nobody plays, and then listens on the game's own UDP ports for a packet that wakes it again.

| part | source | state it keeps | operations |
|---|---|---|---|
| main loop | `supervisor.py` | events, `prepared`, `crash_restarts`, `server`, flags | boot, prepare, wait, start, monitor, stop, recover, exit |
| requests | `supervisor.py`, `control.py` | `wake_event`, `sleep_event`, `shutdown_event` | `wake`, `sleep`, `status` from control threads; four signals |
| data lock | `maintenance.py` | descriptor, re-entrant depth | `try_acquire`, `release`, `hold` |
| updater | `steamcmd.py`, `operations.py` | incomplete marker, two time stamps, server files | `update_server`, `update_due`, `ensure_saved_link` |
| server process | `server_process.py` | the Wine process group, output reader | `start`, `poll`, `stop`, `close` |
| wake listener | `wake.py` | sockets, packet history per source | `open`, `wait`, `close` |
| idle detection | `supervisor.py`, `a2s.py` | idle timer, query counters | one query per interval |
| state store | `state.py` | status and heartbeat, memory and file | `set_state`, `update`, `touch`, `snapshot` |
| Wine prefix | `wine.py` | prefix, version file, incomplete marker | `prepare_wine_prefix` |
| configuration | `configuration.py`, `ini_merge.py` | `Game.ini`, `Engine.ini` | `apply_configuration`, `merge_ini` |
| helpers | `scripts/backup.sh`, `restore.sh` | archives, saved directory | one archive, one swap, inside the lock |
| health check, client | `healthcheck.py`, `nosctl.py` | none | read the status; send one command |

How they interact:

- The main thread calls everything else. Control threads (one per connection) and the signal
  handlers touch only the three events, and read the published state, `_start_in_progress` and
  `_waiting_for_wake`. A handler runs inside the main thread, so it sees one consistent state; a
  control thread reads and sets in separate steps.
- The supervisor and the helpers share the volume and meet only at the kernel lock on
  `<data>/.nos-maintenance.lock`.
- The game and the wake listener share the published UDP ports.
- Across container restarts only the volume survives: executable, update marker, stamps.

What is hard here: requests that arrive between a check and its use; one lock depth counted by
nested `with` blocks, explicit releases and exception paths; a start that fails after the fork, a
stop that fails and is tried again; a kill between an update's marker and its end; a shutdown
that has to get through every wait.

What makes each part correct:

- lock: exclusion of helper and supervisor, no leaked or doubly released scope;
- main loop: one game at a time, always owned; ports never shared; the status never hides a game;
  the crash budget never overdrawn; a half-updated server never started; shutdown terminates;
- requests: an accepted request is served or superseded by a later one, and none is left over;
- updater, Wine prefix, migration, restore: a crash at any point loses nothing and is repaired;
- listener: a wake means `packet_count` packets of one allowed source within the window;
- idle detection: players are never disconnected by failing queries;
- state store and health check: a dead or failed supervisor is reported, a live one is not.

## 2. The modules

| module | what it is |
|---|---|
| `DataLock` | the lock: `depth` (`DataLock._depth`), `flock` (the kernel's owner); `TryAcquire`, `Release(n)`, `HelperEnters`, `HelperLeaves`, `LockDies` |
| `DataGuard` | the abstract promise of the lock: users of the volume one at a time |
| `SupervisorState` | the supervisor's variables, initial state, lock scopes and the step forms |
| `Supervisor` | one action per step of the main thread, control threads, signals, surroundings; the specification, safety and shutdown properties; composes `DataLock`, refines `DataGuard` |
| `RequestOrder` | `Supervisor` with a history variable for the last accepted request; what is held of it, and request liveness |
| `SupervisorProofs` | their inductive invariants, the proof that every step keeps them, and the theorems |
| `SavedData` | `ensure_saved_link` and the swap of `restore.sh`, one action per file operation |
| `SavedDataProofs` | its inductive invariant and theorems |
| `WakeListener` | the packets, the packet history and the wake in the sleep loop |
| `WakeListenerProofs` | its inductive invariant and theorems |
| `SteamcmdRun`, `UpdateContract` | `update_server` with the processes it starts, and what its callers rely on, which it refines |
| `UpdateSchedule` | `update_due`, the two stamps and a wall clock that may be set |
| `ServerStop`, `StopContract` | the escalation of `ServerProcess.stop`, and what its callers rely on, which it refines |
| `ServerStopProofs` | its inductive invariant and theorems, and the steps of `StopContract` |
| `IdleMonitor` | the passes of `monitor_server` with time, queries and the output reader |
| `A2SInfo` | `query_info` and the walk of `parse_info_response` over a packet |
| `A2SAnswer` | the answers to A2S_INFO as a server writes them, with which the parser is compared |
| `A2SInfoProofs` | the inductive invariants and theorems of the parser, as `MCWatching` instantiates it |
| `StateStore` | the published state, memory and file, with the health check |
| `WinePrefix` | `prepare_wine_prefix` over containers, images and settings |
| `IniMerge`, `Configuration` | `merge_ini` as a function of lines; `apply_configuration` around it |
| `ConfigurationProofs` | what a merge makes of any file, the inductive invariant and the theorems |
| `BackupRotation` | how `backup.sh` publishes and prunes archives |
| `MCSupervisor`, `MCRequestOrder`, `MCSavedData`, `MCWakeListener` | the instances TLC checks |
| `MCProcedures` | `Configuration` with instances of `WinePrefix`, `ServerStop`, `SteamcmdRun` and `BackupRotation` |
| `MCWatching` | an instance of `IdleMonitor` (three policies), `A2SInfo`, `UpdateSchedule` and `StateStore` |
| `WatchingProofs` | inductive invariants and theorems of `IdleMonitor`, `UpdateSchedule` and `StateStore` |
| `ProceduresProofs` | inductive invariants and theorems of `WinePrefix`, `BackupRotation` and `SteamcmdRun` |

How they fit together. `Supervisor` is the composition: the main thread with the lock, requests,
helpers and surroundings, in which a stop, an update, a preparation, a query and a publication are
one step, or a begin and an end, with several outcomes. Each of the other modules zooms into one of
these. What `Supervisor` assumes of them is stated where it can be: `StopContract` is its stop (a
return means nothing of the game is left, a raise may leave it), `UpdateContract` its update (only a
good run clears the marker, nothing writes after the end), `NothingLost` and `ReturnsLinked` are the
saved link, and `PreparedAtLast` is the preparation of Wine that succeeds once faults end.

The zooming modules share no state, so `MCProcedures` and `MCWatching` are sums and not products: a
variable `part` names the component that runs, the others stay where they began. Each property
speaks of its own component.

Definitions marked "Mutant of" are plausible mistakes: each, put in place of the operator it
precedes, must break a property; no specification uses them.

Names follow the source. `pc` is where the main thread is; a step is the code between two points
at which somebody else could tell the difference (a published state, an event read, set or
cleared, the lock, the process, the sockets, the disk). `call` records what a shared method has
been called with: `perform_update` is called from three places, `prepare_initial` from two,
`stop_server` from five. `Scopes` derives from `pc` and `call` which `with hold` and
try/finally scopes are open; `Raise` leaves all of them, as an exception does, and `Release(n)`
is what that does to the lock.

| variable | code |
|---|---|
| `state` | `state.snapshot()["state"]` |
| `wake`, `sleep`, `shutdown` | the three `threading.Event`s |
| `starting`, `waiting` | `_start_in_progress`, `_waiting_for_wake` |
| `server`, `proc`, `listener` | `self.server is not None`; the process tree; bound sockets |
| `prepared`, `crashes`, `startNow`, `lastStop`, `idle` | the attributes and locals of these names |
| `exe`, `marker`, `stamp` | executable, `incomplete_update_file`, `update_stamp` on the volume |
| `ctl` | for each control connection the step it is about to take |

Settings are a set of names of the switches that are on (a delay of 0 is off). Time is abstracted:
each timeout may expire at any moment, so each run covers all delays. `Faults` names the failures
the environment may inject: a preparation, update, spawn, status write or stop that fails, a game
that exits by itself, and a kill of the supervisor.

`SavedData` zooms into what the supervisor's model has as one step. A directory is the set of files
in it, a world (one saved game) is a set of files that belong together; copies and removals go file
by file, renames are atomic as they are in the code (`Path.replace`, `mv -T`). `pc` and `restore`
say where `ensure_saved_link` and `restore.sh` are; that only one of them is inside its lock is what
`MaintenanceExcluded` establishes, and is the guard `Unlocked` here. Between two calls SteamCMD, an
operator or the game may add worlds. `made` records which worlds have existed, `emptied` whether a
restore left the saved directory missing or empty.

| variable | code |
|---|---|
| `target`, `inTarget` | `settings.server_saved_path`: none, the right link, another link or file, a directory with these files |
| `exists`, `saved` | `settings.saved_dir` |
| `staged`, `orphan`, `orphans` | `.saved-migration-*/saved`; `orphaned-server-saved-*` of this and earlier calls |
| `stage`, `moved`, `previous` | `.restore-stage.*/saved`; `*.before-restore.*` of this and earlier calls |

`WakeListener` zooms into the supervisor's `Listen`. Each socket has a kernel buffer that fills at any
time, `Accept` is one pass of the read loop for a packet that counts (`_record_packet` and, at the
threshold, `close`), `Ignore` one for a packet that does not, and during an update nobody reads.
`history` is `self._history` without its order of insertion: the order is that of the latest packets,
and where the model's coarse clock cannot tell two of them apart `Oldest` allows either. `log`
records every packet counted, with the times at which it arrived and was read, and is never pruned:
the properties compare the history's verdict with it.

`SteamcmdRun`. `leader` is `steamcmd.sh`, `child` everything else in its process group, `reader` the
thread of `stream_output`; `said` and `seen` separate the output from what the reader has got to when
`join(timeout=5)` returns, which is all that decides on the second run. `raised` is the exception on
its way through `_terminate_process_group`. Cancellation, a heartbeat that raises and the timeout
interrupt any wait; any file operation may fail.

`UpdateSchedule`. `success` and `attempt` are what the two stamp files hold, or `None`; a write is
`Empty` and then `Fill`, as `write_text` truncates first. `now` is true time and `wall` is
`time.time()`; `back` and `forth` say by how much it was set; `succeededAt` and `triedAt` are when the
recorded events truly happened.

`ServerStop`. `leader` is the child (Wine, or `xvfb-run`), `group` stands for Wine clients in its process
group, `wine` for the wineserver; a client may leave the group, so `wine` may outlive `group`. The labels
are the signals and waits of `_stop_process`, the rounds of `_wait_for_wine_exit`, and the two `close`.

`IdleMonitor`. `policy` is a record of the settings and of what may happen under them; it never changes,
so one instance checks several policies. `idle`, `zeros`, `ever`, `nextQuery`, `started` are `idle_since`,
`successful_zero_queries`, `a2s_ever_succeeded`, `next_query`, `started`; `Asked` is the `now` that a
pass reads before its query and uses after it. `source`, `count`, `shown` are `_log_source`,
`last_log_player_count` and the published `log_players`. `output`, `seen`, `report`, `reader` belong
to each server's output reader, which may outlive it: `report` is a count computed and not yet passed
to `_log_activity`. `answers` is history: what the properties compare the counters with. An answer
whose publication fails is handled as a failed query (`supervisor.py:382-411`), although `ever` is set:
in `answers` it is one that speaks for nobody's absence.

`A2SInfo`. `pc` is the field that is read next, `offset` the code's offset, `packet` a header and any
sequence of bytes; an `IndexError`, `struct.error` or `ValueError` is "uncaught". `A2SAnswer` states the
answer of a server from its last field to its first, independently of the parser.

`StateStore`. `memory` and `beat` are `_data` without and with its heartbeat, `file` is what the state
file holds. `life` is the main thread: looping (it calls the store at least every `Gap`), in a wait
of up to `MaxWait` that does not, hung, or dead. The periods and the age allowed are unrelated, as in
the code. The output reader's thread calls the store as well.

`WinePrefix`. `dir` and `reg` are the prefix and its `system.reg`, `made` is whose `wineboot`
completed it, and `torn` whether a removal of it was interrupted and not made good by a later
`wineboot`, which the code cannot see; `stamp` and `marker` are the version file and the incomplete
marker, which it can. `wineboot = "done"` is the time after its exit when the wineserver still holds
the registry. A life is a container; image and settings may differ in each. `adopted` is history: the
version file took the image's version for a prefix of another one, because changes were not looked at.

`IniMerge` is a function of a sequence of lines (sections, assignments, others), with names as pairs of
their normal form and their spelling, and the white space before a key. What the code writes is not
always read back as what was meant, so an entry comes with the lines as which its section and its
assignment will be read: `title` and `text`, one line each for an ordinary entry, more if `splitlines`
finds a break in it, another kind of line if the key looks like a comment. `Hidden` are the names that
`KEY_RE` takes for a key only after white space. `Configuration` adds the generated password and its
file, the files' failures, kills, later containers with other settings, and `Game.ini` in a backup
(`aside`), which a restore may bring back.

`BackupRotation`. `archives` has the number, the modification time and the wholeness of each published
archive; `Link`, `Unlink`, `List` and each removal of `Prune` are steps of their own.

## 3. What is checked

| run | configuration | question |
|---|---|---|
| `supervisor_all_faults` | most switches on, one control thread, one helper, all faults, one crash restart | exclusion, lock depth, ports, ownership, status, crash budget, and the refinement of `DataGuard` |
| `supervisor_signals` | container starts asleep, signals only, one helper, all faults, two crash restarts | a signal never queues a wake for an active server; `ShutdownTerminates`; `NeverStartsHalfUpdated` |
| `requests_served` | no faults, one helper, signals only | `WakeServed`, `SleepServed`, and that an accepted request is not dropped on the way, `RequestsHeld` |
| `saved_data` | one shipped, one played, one archived world of two files, two failures or kills | `NothingLost`, `PublishedWhole`, `ReturnsLinked`, `MigrationCompletes` |
| `wake_listener` | three allowed sources, room for two, one denied, two ports, threshold 2, window 1, four packets | `WakeJustified`, `NoWakeMissed`, `HistoryBounded` |
| `procedures` | the Wine prefix over two images, three containers, four faults, all settings, which change at each start; the configuration with files of up to three of six kinds of line, eight environments (three with entries that are read back as something else or indented), a backup, three preparations in a row, two faults; three stops with all faults; two updates with one error; four backups with a kill | `PrefixSound`, `PreparedAtLast`; `Applied`, `Preserved`, `Stable`, `PasswordKnown`; `ImplementsContract`, `SignalsOwnGroup`, `WineChecked`; `ImplementsUpdate`; `ArchivesKept` |
| `watching` | three idle policies (default; log allowed to stand in, with publications that fail; two servers in a row without a minimum uptime); 128 answers cut off anywhere; eight units of schedule, clock set by three; six of the store, waits longer than the age, clock set by two, two failed writes | `SleepJustified`, `IdleNotOverlooked`, `PlayersKept`, `LogCountCurrent`; `OnlyCaught`, `ReadTruly`; `NotTooLate`, `NotTooSoon`; `FileCatchesUp`, `HealthTruthful` |
| `wake_window` | the same as `wake_listener`, three packets | finding 5 |
| `queued_wake_race` | one control thread, no faults | finding 1 |
| `first_install_open` | `START_ON_UPDATE_FAILURE`, empty volume, failing updates | finding 2 |
| `explicit_retry` | crashes only | finding 3 |
| `sleep_after_wake` | no faults | finding 4 |

Bounds and why they are enough. One control thread already gives every interleaving of one
request with the main thread and with any number of signals, and signal handlers need no
identity. One helper gives every order of lock hand-overs between a helper and the supervisor;
two helpers exclude each other by the same kernel lock, and the theorems hold for any set of
them. A crash budget of 1 and of 2 reaches the last allowed restart, the one beyond it and the
recovery. The only counters, `depth` and `crashes`, are bounded by the code itself (the type
invariant and `DepthMatches`), so no bound cuts behaviour off.

For `SavedData`, two files per world are what it takes to be half copied and half removed; three
worlds tell the server's, the game's and the archive's data apart; two failures allow the longest
scenario we know, a half removed directory of the server followed by a failed swap. In the states
that `PublishedWhole` excludes by `emptied`, the half removed directory is indeed taken for the
server's saves and published: `rmtree` fails half way, a restore leaves no saves, and the next
preparation migrates the rest. The whole world is then still in `*.before-restore.*`
(`NothingLost` holds), but the operator has to know.

For `WakeListener`, a threshold of 2 and a window of one unit on a clock of three units give packets
inside, at the edge of and outside the window; three sources with room for two force evictions; four
packets suffice for a count that is interrupted by another source. The allowed sources and the ports
are symmetric, and no liveness is checked in that run.

For the sums. `WinePrefix`: two versions tell the image's Wine from another; a removal or creation that is
interrupted, then meets other settings, then fails again takes three lives and three faults.
`Configuration`: three lines are a section, a key of it and one more of any kind, so that duplicates,
keys before any section and keys of a later section of the same name occur; two longer files and a template
add a section that comes back, keys with white space before them, a commented key and a password that the
image brings. Environments cover a variable, an override, both, one that is rejected, spelling variants, and
entries that are read back as something else. Preparing three times in a row (`MaxAgain`) shows what grows. `ServerStop`: a stop, its retry, and a retry after a return that raised.
`SteamcmdRun`: a call with its two runs and a call after it. `BackupRotation`: keeping none, one
and two of four archives, with one call that was killed before the last. `IdleMonitor`: a
timeout, uptime and minimum of two units or answers each in five units of time, so that a series can be interrupted
and begin again; one player suffices, because the code asks only for zero or more, and two servers
let the reader of the first report into the second. `UpdateSchedule`: an interval of 3, a retry delay of 2 and
a clock set by up to 3 give stamps in the future and gaps at, below and above both. `StateStore`:
with an age of 3, a throttle of 1 and waits of up to 3 between calls, silences below, at and above the age occur.

Fairness. The supervisor's `FairSpec` assumes weak fairness of `Progress`, the steps of the main thread that are not
failures: it is one thread, the operating system schedules it, and each of its waits has a timeout or
is woken by the shutdown event. Injected failures may happen but never have to, so termination does
not depend on one. It assumes nothing of helpers, the game or users, nor that any particular branch is taken, so
`ShutdownTerminates` holds with a helper that never lets go. `RequestSpec` adds that a helper's
archive ends and that polling four times a second for the lock is not defeated forever by helpers
which operators start one by one (strong fairness of `PrepareHold` and `StartHold`). `SavedData` assumes that a started migration or
restore goes on, since each is a single process with no wait in it, and strong fairness of
`EnsureBegins` for the same reason as `PrepareHold`; the number of failures is bounded, so that
"retries finish the migration" means "once the failures end". `ServerStop` and `SteamcmdRun` assume
weak fairness of their own steps only: every wait in them has a timeout, which is why no process has
to end by itself, and `ServerStop` that of the reader's thread, which looks at its event four times a
second. `WinePrefix` assumes that Docker restarts the container, retries follow their delay, and
`wineboot` and the wineserver end or run into their timeouts; faults are bounded.

What the properties except. These are the places where the code gives less than one might expect;
all but the last are part of the properties, and TLC finds a violation without each of them; the last
is a limit of the model.

- `PlayersKept`: an output reader that died of a failed publication (`supervisor.py:204`). Nobody
  restarts it, so with `ALLOW_LOG_ONLY_IDLE` its last count stays in use. (`SleepJustified` holds: it
  is about the count the code had.)
- `PrefixSound` has two exceptions. A removal of the prefix that was interrupted (`wine.py:125-131`), of
  which no marker tells, followed by a container without `RESET_WINEPREFIX` or with the older image: what
  is left then passes for whole if `system.reg` is among it. `TROUBLESHOOTING.md:63-71` has the operator
  remove the setting once the container is recreated, and does not say to wait for the removal to finish.
  And a new image under which `RESET_WINEPREFIX_ON_VERSION_CHANGE` was off: line 186 writes the new version
  whether or not anything was reset, so turning the switch on later finds nothing to do
  (`wine.py:118-123`), and the game keeps the older version's prefix.
- `HealthTruthful`, `FileCatchesUp`, `NotTooLate`: a wall clock set back delays the heartbeat
  (`state.py:103`), the detection of a hung supervisor, and an update, each by no more than what it was set
  back by. A wait of the main thread that is longer than `HEALTHCHECK_MAX_HEARTBEAT_AGE` less the
  throttle of five seconds may make a living supervisor unhealthy; `settings.py:259-261` and
  `healthcheck.py:33-40` allow such settings. `NotTooSoon`: a clock set forth shortens the intervals by as much; one set back may hide a
  failed attempt behind the success before it, and then the longer interval applies.
- `ArchivesKept`: after the clock was set back the newest archive may be the one with the oldest time,
  and `backup.sh` prunes it right after publishing it; the number kept is still right.
- `Applied` and `Preserved` (`AllReadable`) and `Stable` (`Steady`): entries of `GAME_INI_OVERRIDES` that
  the code accepts and does not read back as what they set. A key that begins with `;` or `#` is
  written as a comment and added again at every merge; one that begins with `[` may be read as a section
  (`[a` with the value `b]`). `configuration.py:22-23` and `149-152` reject `\r`, `\n` and NUL, but
  `merge_ini` splits with `splitlines`, which also breaks at U+2028, U+0085, form feed and others: a
  section, key or value with such a character becomes several lines, of which some are added again at
  every merge. A key that begins with white space is set correctly, but `merge_ini` writes the
  indentation it finds and then the key as it is spelled (`ini_merge.py:70`), so that the line is indented
  further at every merge: this breaks `Stable` only. A value that ends in such a separator, whose last
  line would be empty, is outside the model.
- `PasswordKnown`: a restore that brings back a `Game.ini` from before the last password was generated.
  That file has an admin password, so none is generated, while the password file holds the later one
  (`configuration.py:189-195`).
- `ImplementsUpdate` covers processes that outlive an interrupted run. The shell that ends normally is
  taken to outlive its children, which is a property of SteamCMD's script and not of this code.

Findings (runs that must show a violation). All five are disagreements of code and documentation.

1. `NoQueuedWake`: a control thread's wake that passed its checks before the start sets the event
   while the server is active; the next sleep ends at once (`supervisor.py:44-51`,
   `CONFIGURATION.md:67`).
2. `FirstInstallFailsClosed`: `required` is recomputed at the retry from the executable, which the
   failed first installation may have written (`supervisor.py:135-137`, `CONFIGURATION.md:33`).
3. `ExplicitRetry`: a sleep accepted in `ERROR` survives into the retry and cancels it
   (`supervisor.py:211`, `549`; `WAKE-AND-SLEEP.md:88`).
4. `SleepOverridesWake`: a sleep after a queued wake is cleared where the wake is consumed
   (`supervisor.py:442`; `WAKE-AND-SLEEP.md:78`).
5. `WindowByArrival`: packets that wait in a socket buffer during the periodic update are stamped when
   they are read, so the window does not bound when they were received (`wake.py:152`,
   `supervisor.py:502-522`, `CONFIGURATION.md:50`).

## 4. What is proved

`SupervisorProofs` defines `IInv`, which TLC checked before it was proved:

- `TypeOK`, and `DepthMatches`: the depth is the open scopes plus the owned server. By itself it is
  not inductive, since whether a scope opens on top of a server depends on where a server can be.
- `ServerInv`: there is a server exactly at the program points between the spawn and the end of its
  stop, or after a failed stop; `proc` runs only with it.
- `ListenerInv`: sockets are bound only inside the sleep loop and its periodic update.
- `CrashInv`: an overdrawn counter exists only on the way to the recovery, which resets it.
- `StatusInv`: which states can be published at which points while the game may run.
- `RepairInv`: between the update gate and the spawn the marker is gone, or failures are tolerated.

One lemma per conjunct shows that each action preserves it; `InvInit` and `InvStep` combine them,
and `Invariance` lifts them to `Spec => []IInv`. From it follow the theorems `TypeCorrect`,
`LockCounted`, `MaintenanceSafe`, `PortsSafe`, `GameAlwaysOwned`, `StatusNeverHidesGame`,
`CrashesBounded`, the action property `RepairFirst`, and `GuardImplemented`, the refinement of
`DataGuard`. (`MaintenanceExcluded` follows from that refinement, which the run checks.) The
assumptions are the named ones of `DataLock` and `SupervisorState`: helpers are not the supervisor,
settings and faults are known names, `MaxCrashRestarts` is a natural number.

`SavedDataProofs` proves for any worlds, files and number of failures: `WorldsKept`
(`NothingLost`), `OnlyWholeWorlds` (`PublishedWhole`), `LinkedAtReturn` (`ReturnsLinked`) and the
types. Neither safety property is inductive. `NothingLost` needs `RemovalInv`: when `rmtree` runs,
every world is whole somewhere else already; which needs `CallInv`, that a migration only ever
replaces an empty directory. `PublishedWhole` needs `PartialInv`: a half removed directory of the
server never coexists with an empty saved directory, unless a restore emptied it. `SwapInv` says
that the saved directory is away only between the two renames. The assumptions are that a world
has at least one file and that the bound on failures is a number.

`WakeListenerProofs` proves for any ports, sources, threshold, window, limits and buffer size
`WakesJustified` (`WakeJustified`), `WakesNotMissed` (`NoWakeMissed`), `HistoryLimited`
(`HistoryBounded`) and the types. `SortedInv` and `SuffixInv` say that the times kept of a source
are sorted and are those of its last counted packets: with them a full history is a run of packets
in the log. `StaleInv` says that while no source was dropped, every counted packet that is no longer
kept is older than the window; without it nothing rules out a missed wake. `FirstFreshFound`
shows by a least element that the loop of `_prune_history` stops where the `CHOOSE` of the model
says; `CountedInBoth`, `NoRunCounted` and `RunCounted` say what one more packet does to a log and its
history. The assumptions are the named ones of `WakeListener`: the threshold and `MAX_TRACKED_SOURCES`
are positive, and the bounds of the clock and of the packets sent are any numbers.

`ServerStopProofs` proves for any set of faults and number of calls `SignalsGoToOwnGroup`
(`SignalsOwnGroup`), `WineAlwaysChecked` (`WineChecked`) and the types. Neither is inductive: `LeaderInv`
says where in the escalation the leader is unreaped, in particular that an exception leaves the process
part only with an unreaped leader, so that skipping the Wine part is no return; `CheckedInv` carries the
check from the first wait for the wineserver to the end, through commands that fail. The assumption is
`ProceduresAssumption`, of which it uses that the bound on calls is a number.

`A2SInfoProofs` proves for any set of packets of any length `OnlyCaughtEnds` (`OnlyCaught`) and the
types, in particular that the offset stays within the packet. The inductive invariant adds that the byte
which the parser skips unseen (`a2s.py:46`) is there because the header asked for two. And it proves for
any answers, with strings of any length and any optional fields, `AnswersReadTruly` (`ReadTruly`): a whole
answer is read as what it says, and what begins like an answer, cut off or not, never yields other numbers.
`ReadInv` is its inductive invariant. At each field the packet goes on with what is left of every answer that
it begins like (`Follows`), and of a whole one nothing comes after it (`Ends`); the players and flags read are
the answer's; a game id is read only by the last step. A string is found whole because no letter of it is zero
(`TextFollows`). The assumption, `PacketsAssumption`, is that `Packets` are packets and `Sent` are answers.

`ConfigurationProofs` proves for any files, templates, settings and passwords `SettingsAreApplied` (`Applied`),
`PasswordIsKnown` (`PasswordKnown`), `OtherLinesArePreserved` (`Preserved`), `MergingIsStable` (`Stable`) and the
types.

- What a merge makes of every line is shown by induction on the lines. The prover cannot instantiate an
  induction theorem that takes a predicate, so it is stated for sets: a set of sequences with the empty one and,
  with each, those that are longer by one has them all (`SequenceInduction`, from the least element of a set of
  numbers). For this the loops of `merge_ini` are recursive functions, and what they do to nothing and to one more
  element are their first lemmas.
- Of the entries, the last for a key stands (`Stands`). What a merge leaves is `Settled`: each line that assigns
  the key of an entry in its section has the entry's value (`Written`), no section ends before its entries are in
  it (`Ended`), and every entry is there. The lines that no entry sets are still the file's, in its order, which is
  `Preserved`. A merge of what is settled changes nothing (`MergeAgain`), which is `Stable`.
  All this is about entries that are read back as what they set (`EntryIs` shows it of a generated password's).
- What holds of any entries: a merge writes no other lines than those of the file, of the entries, and empty
  ones, but for their indentation (`Closed`, `MergeWithin`). So a password that none of them has does not appear.
- `IInv` is about the preparations: no override of a variable gets past the check, a password is added only
  where there is no file, its file is written before `Game.ini` is, and a file that was merged is settled.
  `Traced` says of `Game.ini` and of the backup alike: if it has the password `i`, then `i` is in the
  password's file or is not the last that was generated. Without a restore, the present file has only the former.

The assumptions are those of `Configuration` and `IniMerge`: files are lines, settings are entries and those of
the environment can override, passwords are new each time (`token_urlsafe(24)`), not empty, and differ from what
files and settings hold.

The two contracts, step by step. `StopKeepsContract` (in `ServerStopProofs`) and `UpdateKeepsContract`
(in `ProceduresProofs`) prove `ImplementsContract` and `ImplementsUpdate` without their fairness: initial
states map to initial states, and each step to a step of the abstract module or to a stutter. A stop needs
`GoneInv`: once the last `wineserver -w` has seen nobody, nothing comes back, until the return. An update
needs `RunInv`: nothing of SteamCMD is alive at the points where no run is under way, because a shell that
ends by itself took its children with it and one that ends on SIGTERM is followed by the kill of its group;
the marker is there from the first run on; and a stamp follows only a good run with an executable.

`SignalsNotQueued` (in `SupervisorProofs`) proves `NoQueuedWake` under the hypothesis that there are no
control threads, `Clients = {}`. Finding 1 shows that it fails with one. `WatchedInv` says that from the
reset of `wake_event` on a state is published that makes a signal handler leave the event alone.

The safety half of request handling is proved of `RequestSafety`, `RequestOrder` without its fairness.

- `SleepsHeld` (`SleepHeld`, the half about sleeps), for all settings, faults, control threads and
  helpers: an accepted sleep is still set with no wake against it, or `SleepTaken`, or the
  supervisor is `Leaving`. It is nearly inductive. What it needs is where the wait is (`WaitInv`)
  and that the wait shows SLEEPING from its first publication on (`AsleepInv`), so that a sleep
  which the wait has cleared is served as soon as that is published.
- `RequestsAreHeld` (`RequestsHeld`: the same of an accepted wake too), without control threads,
  failed updates and games that exit by themselves. `QuietInv` says that nobody sets the sleep event
  of a supervisor that waits, `StartInv` that a start is in progress from its begin to its return,
  and `WakeInv` that no sleep is set where a start clears the wake. Without each of the three
  hypotheses TLC finds a wake that is lost: a thread's wake that was decided before the start can
  come after a sleep which the first gate did not see, and then the start clears the wake and the
  next gate obeys the sleep; a failed update gives up the start with ERROR; the recovery clears the
  event (finding 3 is about the same place).

`WatchingProofs` is about three components of `MCWatching`.

- `UpdateSchedule`, for any interval, delay, clock and number of kills: `UpdatesNotPutOff` (`NotTooLate`) and
  `UpdatesNotTooSoon` (`NotTooSoon`). `ScheduleInv` says what a stamp tells: its age by the wall clock
  differs from the true age of its event by no more than the clock was set, and an attempt after a success
  is stamped later than that by the true distance, less what the clock was set back by.
- `StateStore`, for any throttle, waits and age, which nothing relates: `FailedWritesMadeUp` (`FileCatchesUp`)
  and `HealthIsTrue` (`HealthTruthful`). `BeatInv` bounds the age of the heartbeat in memory by that of the
  last failed write and of the last call; without it a retry with the same value would never be due.
- `IdleMonitor`, for any players, policies, servers and lines: `LogCountIsCurrent` (`LogCountCurrent`),
  `NobodyIsSentAway` (`PlayersKept`), `SleepIsJustified` (`SleepJustified`) and `IdleIsNotOverlooked`
  (`IdleNotOverlooked`). `SourceInv` says that a server which is started finds nothing that was read
  before, and that the log source goes before its stop. `SyncInv` says that what the reader has seen and
  what is still unread make up who plays: for each player the last unread line about it decides.
  `KnownInv` says that while the reader lives, the count covers everyone who was playing before the present
  second. `SeriesInv`, `TimesInv` and `TimerInv` say what the counters and the timer are in terms of all
  answers of the present server: the zeros are the good answers at the end, and the timer began with the
  first answer of the quiet that lasts. `DecidedInv` is both decision properties at once: asleep exactly if
  justified.

The assumptions are `ScheduleAssumption` (numbers, and a `NoStamp` that is none), `AgeAssumption` (numbers, the
age positive) and the other two of `StateStore`, and `IdleAssumption` (policies are policies, finitely many players, bounds are numbers).

`ProceduresProofs` is about three components of `MCProcedures`.

- `WinePrefix`, for any images and settings, free in each container, lives and faults: `PrefixIsSound`
  (`PrefixSound`). `WineInv` says what is known of the prefix at each step; its core is that a `system.reg`
  without a marker has a maker, and that a stamp names this maker, wherever no interrupted removal was
  forgotten and no other version was adopted.
- `BackupRotation`, for any numbers to keep, clock and kills: `ArchivesAreKept` (`ArchivesKept`). `KeptInv` is
  about what outlives the removals that are planned, `BackupInv` about numbers and times that agree as long
  as the clock does. `EnoughKept` picks an archive with too many newer ones whose newer ones are all kept
  (there is one, as finite sets are well-founded under inclusion), `ExcessIsOld` counts the numbers above one.
- `SteamcmdRun`: `UpdateKeepsContract`, above.

The assumption is `ProceduresAssumption`: versions are positive numbers, the numbers to keep and the bounds are
numbers. `RunBehaves` in both modules proves that a behaviour of the sum is one of each component, so that
the theorems hold of what TLC checks. All inductive invariants were checked by TLC before they were proved.

Only model-checked is liveness, which the prover cannot reach (it has neither fairness nor `ENABLED`):
`ShutdownTerminates`, `WakeServed`, `SleepServed`, `MigrationCompletes`, `PreparedAtLast`, and the ends that the
two contracts promise. Every invariant and action property of the passing runs is a theorem.

## 5. Not modelled, and the plan

Abstracted within modelled components: contents of files and packets beyond what the properties tell
apart, the command lines of SteamCMD, Wine and the game, the conversion of single settings into values
of `Game.ini`, the checks that the helpers make before they change anything, temporary files that a kill
leaves behind, and processes that survive SIGKILL (except the game's leader, which `ServerStop` has).

Not modelled:

- Settings (`settings.py`): parsing and range checks of the environment, one variable at a time. They
  keep no state; a model would repeat each guard. The switches and limits are the modules' CONSTANTS. Their
  assumptions are what the proofs need, never more than `settings.py` enforces: mostly that a
  limit is a number, here and there that it is positive.
- Control socket and client (`control.py`, `nosctl.py`): one request line and one answer per connection.
  What a request does is in `Supervisor`; the rest is input and output.
- Container entry point: users and permissions, in sequence, before the supervisor exists.
- CI and image scripts: not part of the running system.

What is left to do:

1. What the supervisor relies on within a stop and an update is compared by reading only. `Supervisor` has a stop
   as a begin and an end in which the game may be gone already, and marks and starts an update in one step;
   for a theorem that its steps are steps of `StopContract` and `UpdateContract` too, these have to be cut
   at the same points.
2. `Configuration` takes the overrides of `GAME_INI_OVERRIDES` as one list, in the order in which they are
   written. The code's dictionary groups them by section first, which differs only where one section is spelled
   in two ways.
3. The request that a control thread may lose (`RequestsAreHeld`) is a property of the code without a statement in the
   documentation to hold it against; a lock around the check and the set would make the hypothesis unnecessary.
