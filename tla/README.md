# Verification of the driving and update core of sunnypilot

TLA+ models of parts of this repository, the TLC runs that check them on small
instances, and the theorems about them that TLAPS proves for every value of
their constants. `PROJECT.json` lists the runs, the source lines each
definition stands for, the hazards and the theorems; this file says what they
mean. Source paths are relative to `src/`.

## The system

sunnypilot is a driver assistance system: some forty processes on a device in
the car, started by a manager, that exchange messages over shared memory and
share parameters through files. The parts with control logic of their own:

| part | source | state | operations | what is hard |
| --- | --- | --- | --- | --- |
| Engagement | `selfdrive/selfdrived/selfdrived.py`, `selfdrive/selfdrived/state.py`, `selfdrive/car/car_specific.py`, `sunnypilot/mads/*` | two state machines (openpilot and MADS, which steers alone), a timer they share, the last car state, mismatch counters, toggles | one frame at 100 Hz; a refresh of the toggles by a second thread | MADS rewrites the events the first machine acted on; two copies of one toggle; edges against stale samples |
| Updater | `launch_chffrplus.sh`, `system/updated/updated.py`, `system/hardware/tici/agnos.py` | directory trees and flag files, the AGNOS slots, parameters, the request of the owner | boot, an update cycle, the buttons of the user interface | power failure and SIGINT between any two steps; signals during a cycle; two reboots of which one swaps the OS |
| Manager | `system/manager/*` | a process, its exit code and `shutting_down` per entry | ensure_running once per deviceState, stop, restart, cleanup | stops that do not wait; restarts; pids that outlive it |
| hardwared, power monitoring | `system/hardware/hardwared.py`, `power_monitoring.py` | `started_ts`, conditions, thermal band, `off_ts`, battery estimate | one step per panda state | latches with hysteresis, iterations that skip the decision, requests to cycle |
| pandad | `selfdrive/pandad/*` | safety mode, multiplexing, heartbeat | configure, send, health | the drive, its parameters and its car model arrive by three ways |
| Upload queue | `system/athena/athenad.py` | queue, current items per worker, cancelled ids, cached queue | enqueue, list, cancel, upload, retry, reconnect | four workers and four handlers without a lock; restart |
| Segments | `system/loggerd/*` | directories, lock files, attributes; the segment each camera is in | log, rotate, delete, upload | four processes over one directory tree; cameras that stop |
| Parameters | `common/params.cc` | files under one directory | put, remove, clear_all, queued put | atomic replacement, power cut, a writer thread that ends |
| Driver monitoring | `selfdrive/monitoring/policy.py` | awareness per policy, terminal counters | one step at 20 Hz | switches between policies |
| Speed limit assist | `sunnypilot/.../speed_limit_assist.py`, `sunnypilot/selfdrive/car/cruise_ext.py` | a state machine with timers in plannerd, the set speed in card | one step per frame each | each acts on the other's last message |
| Wi-Fi manager | `system/ui/lib/wifi_manager.py` | saved networks, the network it is on, an epoch of user choices | signals of NetworkManager, choices of the user, reading back | a monitor that is behind, threads without a lock |
| Lane change | `selfdrive/controls/lib/desire_helper.py`, `auto_lane_change.py` | a state machine, a wait timer, two memories | one step at 20 Hz | what one use of the blinker leaves for the next |
| Messaging | `cereal/messaging` | last message, alive, frequency | update | late and lost messages |

Interaction: `card` publishes the car state, `pandad` the panda states;
selfdrived turns them into events and publishes `selfdriveState` and
`selfdriveStateSP`; `controlsd` reads both and steers. hardwared decides
`started`; the manager starts and stops the processes by it, clears parameters
at the transitions and stops `updated`, which runs offroad only; pandad sets
the safety mode of the panda by `started` and by the parameters card wrote.
loggerd writes while onroad what the deleter removes and the dashcam uploader
sends while parked. The user interface talks to the updater by signals and
parameters.

What makes each part correct: engagement ends for every reason that must end
it, both machines agree, losses are announced; the device always boots a whole
tree with the OS it needs; what the system runs is what the manager believes,
and a drive that is over is over for card and for the panda; a requested
upload is not lost or in two hands; a segment that counts as sent is at the
server whole; a parameter survives a power cut whole and not older than
promised; a limit is followed, and a lane changed, only as the driver agreed.

## The modules

### Engagement

| module | models |
| --- | --- |
| `OnroadEvents` | the event types of the events the model raises (`EVENTS`, `EVENTS_SP`) |
| `SelfdriveState` | `StateMachine.update` of openpilot, as functions of state, timer and events |
| `MadsState` | `StateMachine.update` of MADS, with its use of the shared timer and alert list |
| `Engagement` | the loop: `Frame(c)` is `SelfdriveD.step` with input `c`, `ReadParams` is `params_thread` |
| `EngagementChecks` | observers and properties |
| `MCEngagement` | the inputs and settings of the runs |
| `EngagementProofs` | the theorems |

A frame is one action because the thread that runs it shares nothing but the
toggles with others; `ReadParams` is the other thread. The input record stands
for everything a frame receives: pedals, speed band, gear, main switch, cruise
state, one button event, CAN validity, the events that other parts raise
(`faults`), and what the pandas allow. `FrameEvents` is
`SelfdriveD.update_events` with `CarSpecificEvents`; `Machines` is the update of
the first machine, `MadsEvents` (`ModularAssistiveDrivingSystem.update_events`:
removals, replacements, additions) and the update of the second. `sdWas` is
`enabled_prev`, which the previous frame left; `madsGas` is the copy of the
accelerator toggle that MADS takes at start.

Abstractions: event lists are sets; at most one button event per frame; events
of one kind with equal types are one event (`hardFault`, `softFault`,
`blocked`); the toggles of a refresh change together (mixed values are reached
by refreshes in turn); MADS is switched on; not passive, not notCar, no
REPLAY; `steerDisengage` is raised by the environment, edge or not; before the
first car state the gear is taken as park. `initialized` may turn true in any
frame.

### Updater

| module | models |
| --- | --- |
| `StagedInstall` | the promise: what runs changes at once to what was staged whole, or by work on the device |
| `Updater` | launch script, daemon, AGNOS slots, environment |
| `UpdaterChecks` | the observer `asked`, properties, the refinement |
| `MCUpdater` | which revision needs which AGNOS |
| `UpdaterProofs` | the theorems |

`pc` is where the launch script or the daemon is; they never run at once. Every
step between two points at which a crash leaves a different disk is an action:
`Launch` and `SwapIn` are the two `mv`s, `InitOverlay`, `Teardown`, `Mount`
are `init_overlay`, `FetchUpdate`, `GitReset`, `AgnosUpdate`, `Flash`,
`Finalize`, `CopyTree`, `SyncTree`, `RaiseFlag` are `fetch_update`. A tree is
a version with the two flag files; `copy` says how far a finalized tree has
come: `torn`, `cached` (whole, in memory), `synced`. `set_consistent_flag`
syncs before and after. `Fail` is any command that fails, with the handlers of
`main`; `Kill` is the SIGINT of the manager at an onroad transition, which may
leave git's lock in the overlay; `Reboot` loses what was not synced, or not.

Abstractions: metadata operations of the file system reach the disk in order;
whether the connection is metered and the last fetch old is chosen anew in
each cycle; the `clear_all` of an onroad transition and the end of the daemon
are one step; a flash is one step that leaves the slot unverified until its
end; `pkill` reaches the daemon whenever it runs. Left out: `updater.lock`,
`DisableUpdates`, wait times, `UpdaterFetchAvailable`, descriptions, alerts.
A crash between the two `mv`s leaves the device without BASEDIR: the model
goes to `dead`, and says so in `NothingLost` (the pieces are whole).

### Uploads

| module | models |
| --- | --- |
| `UploadJobs` | the promise: a request waits, is sent by one worker at a time and ends once; only a restart forgets it or has it wait again |
| `UploadQueue` | handlers, workers, the cached queue, reconnection and restart |
| `UploadQueueChecks` | the observer `promised`, properties, the refinement |
| `UploadProofs` | the theorems |

The threads share everything without a lock, so a step is what the interpreter
does between two shared accesses: `ListQueue`, `ListCurrent` and `Enqueue` of a
handler that was asked to upload, `FindToCancel` and `Cancel` of one that was
asked to cancel; `Get`, `Take` (the table of current items), `Start` or a drop,
`Sent`, `Fail`, `PutBack` or `GiveUp` and `ClearCurrent` of a worker;
`CacheRead` and `CacheWrite` are the two halves of `UploadQueueCache.cache`.
`Disconnect` sets the event that ends all threads, `Reconnect` starts new ones,
`Restart` keeps the parameter alone. An item stands for one request.

### Device

`Device` joins four processes at their parameters: `Mgr...` is
`manager_thread` with `ensure_running` and `manager_cleanup`, over a table of
processes that run onroad or always; `Card...` is card from its start until the
car parameters are there; `Pd...` is pandad's 10 Hz step with
`PandaSafety`; `Hardwared` sets `started`, with the ignition at its
discretion. `Exit` is a process that ends for any reason at any time.
`Hardwared` (the module) is what decides `started`: one `HwStep` or `HwSkip` is
one iteration of `hardwared_thread`; `HwSkip` is the `continue` of an iteration
that is not the 2 Hz one and saw no edge. `DeviceProofs` has the theorems about
`Device`, `PolicyProofs` those about `Hardwared` and the loops below.

### Loops with an observer

`DriverMonitoring`, `SpeedLimitAssist` and `LaneChange` model one frame as one
action (`DmFrame`, `Plan` and `Card`, `LcFrame`), as each is a sequential loop;
plannerd and card meet in the messages `told` and `press`, which either may
read late. `PolicyChecks` puts them and `Hardwared` side by side: a behaviour
chooses one of them in `part` and the others do not move, so the state space
is the sum of theirs. The observers say what a run needs to know of the past:
whether heat ended the drive, for how long the driver showed nothing, what
limit he agreed to, whether he braked since the blinker is on.

### Services

| module | models |
| --- | --- |
| `Segments` | loggerd, the deleter, the dashcam uploader and `clear_locks` over directories, lock files, attributes and the server |
| `Rotation` | loggerd's `handle_encoder_msg` and `rotate_if_needed`, encoderd's own count of segments |
| `ParamStore` | one key, the threads that write it, what a power cut may leave |
| `WifiManager` | the monitor thread, the user's threads, `_init_wifi_state`, and NetworkManager as it is seen from there |
| `ServiceChecks` | one of them in each behaviour, observers and properties |
| `StorageProofs` | the theorems about `Segments` and `ParamStore` |
| `RotationProofs` | the theorem about `Rotation` |
| `WifiProofs` | the theorem about `WifiManager` |

In `Segments` a step is one operation on the file system or one decision; the
attribute cache is modelled by what it remembers (`looked`, `seen`). In
`Rotation` time is counted in ticks in which each camera that works sends at
least one packet. In `ParamStore` every change of the key has a number;
`may` is the set of versions that a power cut may leave, `returned` the last
one for which a call returned after the directory was synced. In
`WifiManager` `wire` holds what NetworkManager has sent and the monitor has not
received, the three queues what it has sorted; `Receive`, `NewConnection` and
the steps named after the states are its loop, split where another thread or
NetworkManager can come between: at each question (`LookUp`, `Save`, whose
reply brings all earlier signals in) and between the epoch and the state
(`Clears`, `Store`). `Tap` and `Choose` are the two halves of
`_set_connecting` for the user. `epochs` is the set of threads whose snapshot
is still current. NetworkManager sends what the comments of the handler and
its tests (`system/ui/lib/tests/test_handle_state_change.py`) expect.

## The runs

Engagement. `SoftDisableFrames` is 3 s at 100 Hz in the code, `MismatchLimit`
is 200; the machines only compare them with counters, so small values show
every order of events (3 frames leave room for entering, staying in, leaving
and entering again; the theorems hold for all). Each run takes the inputs of
one concern, all combinations of them in every frame.

| run | shows |
| --- | --- |
| `pause` | `TypeOK`, `NoSteeringInReverse`, `BrakeStopsSteering`, `PauseNeverSticks`, `EngagedTogether` over pedals, gear, main switch, cruise and LKAS button, toggles changing |
| `stops` | `NoEntryRespected` over each reason not to engage, pedals, gears and buttons, in the disengage mode on a car without a main switch |
| `fades` | `SoftDisableBounded`, `RefusalObeyed`, `LossAnnounced` and, under fairness, `SoftDisableEnds` over a soft fault that comes and goes and pandas that refuse |
| `lkas_with_brake` | violation: a comment the code does not keep |

Updater. Two branches, two revisions, the second with another AGNOS, one
commit made on the device: enough for every order of staging, switching,
flashing back and forth and installing. One branch goes on moving (`Moving`),
the other stays where it was found. Nothing else is bounded: the model is
finite.

| run | shows |
| --- | --- |
| `install` | `StagedIsSound`, `NothingLost`, `NoStaleBackup`, `RequestServed`, `AtomicInstall`: the updater implements `StagedInstall`, and, under fairness, `UpdateStaged` |

Uploads and device.

| run | shows |
| --- | --- |
| `uploads` | `OneHolder`, `CancelHolds`, and `JobsKept`: the queue implements `UploadJobs` |
| `device` | `NoOrphans`, `RoundComplete`, `EverythingDead`, `ModeHeld`, and, under fairness, `DriveEnds` |

`uploads` has two workers, one handler and two requests for one file, the
second more urgent, the first allowed on a metered network, one retry each:
two is what a race needs, and a second handler adds a second enqueue of the
same kind. The workers are symmetric. `device` has one process that runs
onroad (card) and one that always runs and is restarted: the rounds treat each
entry by itself.

Policies (`policies`).

| part | properties | bounds |
| --- | --- | --- |
| hardwared | `OnroadConsistent`, `NoThermalBounce` | three temperatures, one per band with its hysteresis; a panda silent for one iteration; two iterations offroad after a request |
| driver monitoring | `DistractionBounded`, `RedHolds` | awareness in five steps, thresholds at two and one, one terminal alert, two frames of terminal time; `DmUnits` is 12, the least that `PolicyAssumption` allows: both budgets and what the filter and the change of policy cost |
| speed limit assist | `Consent`, `Settles` | two limits on both sides of the threshold, three set speeds, timers of one or two frames |
| lane change | `OnceUnasked`, `BlindSpotWaits` | a second of four frames, and three delays on both sides of it: long enough to take the blinker off and on within the second that the blind spot adds |

Services (`services`, `bookmark`, `param_queue`, `false_prompt`).

| part | properties | bounds |
| --- | --- | --- |
| segments | `SentIsWhole`, `EventuallySent`, `StaleLocksGo`; `BookmarkKept` violated | two segments of two files, the first may be bookmarked, one preserved |
| rotation | `OwnSegment` | two cameras, segments of two ticks, at most three, five ticks: two rotations, one of them late |
| parameters | `Durable`; `QueueEmptied` violated | three threads, three changes of the key, a queue of two |
| Wi-Fi | `PictureTrue`; `NoFalsePrompt` violated | two networks, two connections to each over time, one worker and the reader, one thing the user does at any moment (`TapsMax`), three that NetworkManager begins or ends by itself (`TurnsMax`; two in the violating run) |

Deadlock is not checked in these four: the segments and the ticks end.

### Fairness

`fades`: weak fairness of the frame; `Ratekeeper` runs `step` for as long as
the process lives. No input is assumed to come, and the soft fault may stay.
`install`: of the launch script and of the daemon, both sequential programs
whose waits have timeouts; the antecedent is that the device is at last left
in peace: no more failures, kills, pushes or buttons, a clock that is set and
a connection that is not metered. `device`: of the manager's and of pandad's
steps; card may hang or die. `policies`: of plannerd's frame, of its message
and of card's frame, which run at fixed rates; `Settles` then asks what
happens once nothing comes from outside. `services`: of loggerd and of the
dashcam uploader; `EventuallySent` asks for a parked car, a deleter that rests
and an end of failures and power cuts.

Every property of a passing run has a mutant in `PROJECT.json`: an operator
marked `Mutant:` next to the definition it replaces, the way a plausible bug
would change it, that violates the property. No other definition uses them.

## What is proved

TLC checks 40 properties on small instances; for 35 of them TLAPS proves the
same formula for every value of the constants. A theorem holds of the
specification its run checks (for a run with fairness: of that specification
without it, so of the other a fortiori). Each rests on an invariant of its
own, as few of the properties are inductive; `Invariance` (or the name given
below) is the lemma that it always holds, `InitInv` and one lemma per group of
actions are its two halves.

**Engagement** (`EngagementProofs`; 9 theorems). Assumed: the soft disable time
is a natural number above 2; the types of the parameters; any set of settings,
and of inputs that are `Sensible`: a car reports `cruiseDisabled` or
`speedTooLow` with its ACC off, or `speedTooLow` together with
`belowEngageSpeed`, as every brand in `car_specific.py` does. `IInv` adds to the type invariant that nothing is engaged before
`initialized`; that `sdWas` is what selfdrived was (`SdWasInv`); that both
counters stay below the limit while control is on and bound the observed run
(`RefusalInv`); that a second braked frame is one of a gas press (`BrakeInv`):
the event was hidden, and cannot be hidden again as the gas has no second edge;
and how the timer relates to both machines (`SoftInv`): while MADS soft
disables alone the timer and the length of the run add up to a bound that grows
once, when selfdrived leaves `preEnabled` and sets the timer. `NoEntrySafe`,
`EngagedTogetherSafe` and `PauseSafe` are proved of a step from `IInv`.
`LossAnnouncedSafe` adds `WarnedInv`, where the warning of a soft disable is
known to be, and goes through the three ways out (`WaysOut`); the delicate one
is an immediate disable that MADS sees in the frame that starts selfdrived, and
keeps silent about: `StartIsClean` shows that no such frame exists, and is where
`Sensible` is used.

**Updater** (`UpdaterProofs`; 6 theorems). Assumed (`UpdaterAssumption`): the
versions and the AGNOS they need are typed, `None` is none of them; any number
of branches, revisions and AGNOS versions. The properties speak of single
moments (the flag is up, BASEDIR is away); the invariant says what each point
of the two programs has established for the next: that BASEDIR is away only
between the two `mv`s (`AwayInv`), that the overlay is mounted on no backup and
on a BASEDIR with its marker (`OverlayInv`), that the launch script does not
come to the AGNOS step with a tree it would have installed (`BootInv`: else a
flash could spend the slot the tree needs), that no flag is up while a tree is
staged and the copy is of the merged tree, whose AGNOS is running or flashed
(`StagingInv`), and that what the owner waits for is what the daemon will read
(`AskedInv`, for `RequestServedSafe`). `AtomicInstallSafe` is the refinement:
under the mapping of `UpdaterChecks` (`Running`, `Staged`) the first `mv`
stutters, the second installs, `RaiseFlag` stages, taking the flag down
withdraws, work on the device edits, and every other step stutters
(`SwapStep`, `RaiseStep`, `EditStep`, `QuietStep`). Both directions need the
invariant: a `mv` that moved an unsound tree, or a flag raised over a torn one,
would map to no step of `StagedInstall`.

**Upload queue** (`UploadProofs`; 4 theorems). Any number of workers, handlers,
requests and retries, any urls and priorities. The invariant says who may know
of an item: a handler that is to enqueue it is the only one and nobody else has
it (`AskInv`); what is in hand is in one pair of hands, not in the queue, and
from `Take` on in the table (`HandInv`); the accepted items are those in the
queue and those in hand (`HeldInv`); what was or will be written down was
accepted (`KnownInv`, which a restart needs to fill the queue without inventing
a request); and a cancelled one is marked until a worker drops it
(`PromiseInv`). `JobsKeptSafe` is the refinement of `UploadJobs`, from a lemma
on what each action does to one job.

**Manager, card, pandad** (`DeviceProofs`; 4 theorems). Any table of processes.
`RoundInv` says what a round has settled so far, `CleanInv` what the cleanup
has awaited, `PdInv` that pandad is on its way to a safety mode only for a drive
it saw begin; `NoOrphans` is part of the invariant, as a start is only safe
while the manager knows of every live process.

**Files** (`StorageProofs`; 3 theorems). A parameter (`ParamInv`): of the
versions that a power cut may leave the one in place is one, and all are whole.
Segments, for any length of a drive: `SentIsWhole` needs to know what loggerd
will still touch. `PartInv` and `DirInv`: an open file is of the segment
loggerd is in, and what lies beyond does not exist; `ListInv`, `CopyInv`: what
the uploader lists, and has copied of the segment it is at, when loggerd was
done at the listing; `SentInv`: a sent segment is never written again and is
there file for file. `StaleLocksGo` is inductive with them.

**Rotation** (`RotationProofs`). Any number of cameras (a finite set), any length
of segments, queue and run. `RotInv`: while the encoders end the segments and
encoderd was not started again, one that is not ahead is in loggerd's segment,
and one that is ahead was either in it before and counts, or in the one before
it and does not count until it has come along; what waits is of a segment
between. `ready_to_rotate` is then the number of those that count, so it reaches
the number of encoders only when all have come along (`RotationKeeps`), and no
packet lags (`NoneLags`).

**Wi-Fi** (`WifiProofs`). Assumed (`WifiAssumption`): the numbers of connections
are natural and 0 is one of them (the start uses it), the monitor is no thread
of the user, `NoSsid` is no network and no connection. Any number of networks,
connections and threads, of what the user does (`TapsMax`) and of what
NetworkManager begins (`TurnsMax`). What the monitor has not handled is seen as
one sequence per kind, sorted already or not (`Ahead`, `Leaving`, `Coming`):
receiving a message or a reply only moves it within that sequence (`Received`,
`Replied`), sending adds at its end (`Says`), handling takes from its head
(`Handled`). `OfKind` counts ranks for that purpose: as a recursion it would
need an induction over messages. The parts of `WifiInv`:

- `Told`: the last report on its way is of the state the device is in.
  `NoGhosts`: a name is of a connection that is saved or whose end is on its
  way, which gives the first part of `PictureTrue` however often the user acts.
- `UntouchedInv`, until the user has changed anything: no report is forced, all
  names are good (`Plain`); a picture that is wrong has a report ahead that
  resets it (`Foreseen`), and no report of a network being set up finds the
  device shown as on a network (`Ordered`); with no report ahead the picture is
  right (`Shown`).
- `Settled`, after the one thing the user did is done. Only a connection that
  is forgotten while the device is on it can spoil it, as its last report is
  passed over when a network with a name is shown (`Kept`). `ForgottenInv` says
  why the picture is reset even so: a report ahead resets it, it shows no
  network, its name is off, it is connected and the report that the device
  leaves comes first, or the messages that take the name off are still
  unreceived in front of both reports (`Warned`; only a reply could overtake
  them, and then the picture is connected or has no name).

Each action keeps it in a lemma of its own (`ItselfKeeps`, `UserKeeps`,
`ReceiveKeeps`, `ClearedKeeps`, ...).

**Loops** (`PolicyProofs`; 7 theorems). `OnroadConsistentSafe` and
`NoThermalBounceSafe` for any temperatures between -1000 and 1000 (the ends of
`THERMAL_BANDS`) and any limits; `OnceUnaskedSafe` and `BlindSpotWaitsSafe` for
any delays and any length of the second, from how the wait timer trails the
time since the blind spot was taken (`LcInv`); `ConsentSafe` for any interval of
set speeds and any limits; `DistractionBoundedSafe` and `RedHoldsSafe` for any
budget, thresholds and step at the camera. The bound on a distracted driver has
a potential (`StreakInv`): what is left of the budget in use, twice what is left
of the other and a step of the filter go down with every frame without
attention, whatever the policy changes to, until an alert is shown; the
assumption `DmUnits >= 3 * Full - VisionAlert2 - 2` is where it starts (TLC
finds a counterexample for one less).

What the proofs changed. `LossAnnounced` fails for inputs that combine
`speedTooLow` or `cruiseDisabled` with an engagement; the code raises neither
so, which the model had left to the environment and now says (`Sensible`).
`BlindSpotWaits` did not survive its first attempt: a
driver who takes the blinker off and on again resets the wait timer, and a
change begins within the second. The run had not shown it with a second of two
frames; it has four now, and the property says "while the blinker stays on".
The bound of `DistractionBounded` was a number that fitted the instance. Three
`CASE` expressions of `DriverMonitoring` had overlapping guards, of which TLC
takes the first and TLAPS any; they are `IF` chains in the order of the code.

Only model-checked: the liveness properties `SoftDisableEnds`, `UpdateStaged`,
`DriveEnds`, `Settles` and `EventuallySent` (liveness under fairness is out of
the prover's reach). The four violated properties are counterexamples of TLC.

## Where the code and its words differ

Four runs show a disagreement; `PROJECT.json` quotes the lines.

- `lkas_with_brake`: the disengage mode of MADS means to block the LKAS button
  in the frame of the brake, but asks the event list for a type, not an event.
- `bookmark`: the deleter removes a bookmarked segment while unmarked ones
  remain, because the answer "no such attribute" is cached for good and the
  bookmark is set by another process.
- `param_queue`: a value queued while the writer thread is about to end is not
  written until the next call, and the destructor's assertion fails.
- `false_prompt`: the refusal of one network, still queued when the user
  chooses another, asks for the password of the other.

Others were met and have no run:

- MADS, `state.py:47`: the soft disable timer is not reset on entrance while
  selfdrived is in `preEnabled` (`SoftDisableBounded` and `LossAnnounced` are
  stated with what that costs).
- `mads.py:44`: MADS keeps the accelerator toggle of its start, so after a
  change of the toggle a gas press can pause it.
- `updated.py:162`: work on the device is swapped out once a cycle has renewed
  the overlay over it.
- `updated.py:483`: a check that fails after an update was staged leaves an
  offer that a reboot does not install.
- `updated.py:497`: a request to fetch that comes between the decision of a
  cycle and its end is dropped.
- `mads.py:112` and `selfdrived.py:522` allow a mismatch "for two samples"; the
  counters have to reach 200 (`RefusalObeyed` is stated with that limit).
- `update_ready` compares BASEDIR with the remote head, not with the finalized
  tree: it may offer a staged version that is already running.
- `wifi_manager.py:402` says that "all known race windows are closed". Three
  are open: the epoch is counted before the state is set, so that a lookup
  begun in between replaces the user's choice until the connection stands;
  `_init_wifi_state` combines a state of the device with a connection of later
  (`PictureTrue` excludes a state that was read back); a network that is chosen
  and forgotten before the monitor gets to it is shown as connecting until the
  next signal (`PictureTrue` allows one thing the user does).
- `athenad.py:167`: two threads cache the upload queue, and the older picture
  may be written last; the model has it, nothing promises more.
- `manager.py:162` says that `IsOnroad` drives pandad's safety setter; pandad
  follows `deviceState.started`, and may set the mode before the manager has
  cleared the parameters of the last drive.

## Plan

Done: engagement with its proofs; updater and its refinement; uploads and
their refinement; manager, card and pandad over a drive; hardwared, driver
monitoring, speed limit assist, lane change; segments, rotation, parameters;
the Wi-Fi manager.

Theorems: every safety property that a run checks, and both refinements. Left
to TLC is what the prover cannot state, liveness.

## Not modelled

- Control loop: `controlsd` reads `selfdriveState` and `selfdriveStateSP`, which
  are sent one after the other; for one frame they may disagree. What it then
  computes is control over reals.
- Alert manager, messaging: no decision of their own that another part relies
  on; the age of a message is an input of the parts that look at it.
- sunnylink: clients of services whose answers are outside the tree.
- Wi-Fi manager: its start-up (which it calls "tiny race currently" itself), the
  password of tethering, metered networks, scan results, and signals lost when
  more than `SIGNAL_QUEUE_SIZE` wait.
- Perception, localization, planners and controllers: numerical code.
- User interface: drawing and layout; its buttons are the environment of
  `Updater` and `UploadQueue`.
- Tools, vendored and generated code; the queue in shared memory below the
  messages, whose submodule is not in the tree.
