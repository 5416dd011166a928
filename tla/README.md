# TLA+ models of Smart-Traffic-Management

Specifications, model checks and machine-checked proofs for the signal control,
the camera server, the two-container deployment and the desktop program of this
repository. Paths are relative to `src/`.

## 1. The system

Phones, USB or Pi cameras send frames of the four approaches of a junction to a
server. A detector and a tracker count vehicles per approach, one shared phase
machine decides who gets green and for how long, and an ESP32 (or its
simulation) is told. A dashboard shows the feed and the signal and sends
operator commands, directly or through a second container and Redis. The same
pipeline also runs in a desktop program.

| Component | State it keeps | Operations | What makes it correct |
|---|---|---|---|
| Traffic pipeline, signal controller `ai/pipeline/traffic_pipeline.py`, `ai/signal/signal_controller.py` | lane statistics and when they were seen, last detector result, active decision, its start, when the served approach was first seen empty, hardware command, phase counter | `process_step` (with frames or without), reset and reconfiguration through its lock | clearance between conflicting greens; decisions rest on recent detections; early ends rest on empty detections; command and decision agree |
| Signal scheduler `ai/signal/signal_scheduler.py` | clockwise cursor, green bounds | `select_eligible`, `_advance_after`, `schedule` | every approach with demand is served within one round |
| Server runtime `server/runtime.py` | `system_running`, the ticker task | the half-second ticker, START, STOP, RESTART, CONFIGURE, DISCONNECT | a paused system only finishes what was under way; every phase is announced once |
| Control manager and ESP32 interface `ai/controller`, `ai/hardware` | connection state, last error | `process_result`, `connect`, `send_command`, `reconnect`, `close` | a failed write pauses the system |
| Frame coordinator `server/frame_coordinator.py` | latest frame per direction, batch under way, feed, stage counters | `process_batch`, `run_coordinator` | only the owner of a direction is shown; a frame is counted once |
| Camera protocol and pairing `server/{message_handler,websocket_server,connection_manager,session_manager}.py`, `web/services/node_service.py` | sessions, connections, pairings | QR code, register, heartbeat, frame, goodbye, lost socket, expiry | one camera per direction; a disconnected camera's picture stays away |
| WebRTC ingest `server/webrtc_ingest.py` | one peer per node with a receiver, a sampler and one waiting frame | offer, track, state change, deferred close | no task or connection outlives the session; the newest frame is announced |
| Local sources `server/local_sources.py` | capture thread, session, latest frame | start, capture, pump | the session outlives every absence of the camera |
| Tracking and vehicle state `ai/tracking`, `ai/state/vehicle_state_manager.py` | boxes of the last detection, a state per track | a detector frame, a projected frame | vehicles count with evidence only |
| Analytics, smoothing, priority `ai/analytics`, `ai/state/count_stabilizer.py`, `ai/signal/{priority_calculator,emergency_override}.py` | moving average, last statistic | statistics, smoothing, score, boost | counts settle; the green of an approach follows its own demand |
| Two-container deployment `app-backend`, `websocket-server`, `shared` | requests and answers in Redis, mirrored snapshot and pictures | publish, listen, poll, mirror | a command runs at most once and success is true; what is shown is recent |
| Desktop program `main.py`, `startup`, `ai/camera` | configuration, profile on disk, captures, audit | wizard, validation, load and save, open, read, reopen, step, send, release | it runs as configured; what the head took is in the audit; cameras come back |
| Digital intersection `ai/pipeline/digital_intersection.py` | simulated phase, remaining time, camera states, cycle; nothing when live | `step_simulation`, `trigger_*`, `get_snapshot` | no unwatched green; clearance; a reported hold is a hold |
| Replay lab `ai/pipeline/replay_lab.py` | a scheduler and the records of a run | the scenarios | the scheduler is fair on scripted traffic |
| Web API reports, web UI, drawing, other scripts | configuration, tokens, files | routes, reports | section 8 |

**Interaction.** Everything on the server runs in one process: the asyncio loop
(endpoints, coordinator, ticker, commands, WebRTC tasks), one worker thread
(`frame_executor`, which runs batches and both jobs of the ticker one after the
other), helper threads for a command's reset, and a capture thread per local
source. They share `ApplicationContext`; only the pipeline's step is under a
lock. Cameras enter through sessions and connections, or through WebRTC peers
and local sources, into the frame slots; batches drive the pipeline, its results
go to `process_result` and back to the feed. With two containers the server
publishes its snapshot and the pictures to Redis and takes commands from it; the
backend mirrors them. The desktop program is one thread.

**What is hard.** Handlers that give the loop up at an `await` between a check
and its effect (registration, disconnect, expiry, START, an offer); results that
are computed for an owner, a phase or a running system that is gone when they
are used; greens that end early, are pre-empted or are forgotten by an operator,
while clearance is computed from the decision that ends; a command that shall
reach the hardware once, from two paths, or over a publish/subscribe channel that
keeps nothing; statistics that are stale, projected or smoothed, in one record
with fresh ones; clocks of receipt and of processing, compared with `<` in one place and `>` in
another; files and captures that an earlier failure left half open.
`PROJECT.json` lists these hazards line by line with the properties that cover
them, and for the four without one why none does.

## 2. Modules

```
SignalScheduler            pure operators: selection, cursor, green time
  TrafficPipeline          the phase machine, with time
    ServiceOrder           + how often an approach was passed over
    ClearanceTiming        + how long an approach has not been green  -> SignalHead
    DetectorEvidence       + what the detector has said
  DigitalIntersection      the simulated junction                      -> SignalHead
    IntersectionClearance  + how long an approach has not been green
  VehicleTracks            tracks and vehicle states of one approach
    ApproachDemand         its statistic, moving average, score and green
  ReplayLab                the scripted scenarios
SignalHead                 abstract: the colours and their order
Esp32Interface             connection states and outcomes of a write
  SignalRuntime            ticker, worker, batches, commands, announcements
CameraSessions             pairings, sessions, connections, endpoints
  FrameCoordinator         frame slots, batches, feed, counters
VideoPeers                 WebRTC peers and their tasks
LocalSource                capture thread, session and pump of a local camera
  TelemetryMirror          + snapshot, publication, Redis, mirror, preview
CommandBridge              commands and answers over Redis             -> CommandPromise
CommandPromise             abstract: what an operator may rely on
DesktopConfig              pure operators: wizards, records, validation
  DesktopCameras           captures of the streams
    DesktopSystem          + profile, loop, audit, output (Esp32Interface)
```

An arrow is a refinement: `ClearanceTiming!ImplementsHead` and
`DigitalIntersection!SimulationImplementsHead` say that the two phase machines
implement the same abstract signal head, `CommandBridge!ImplementsPromise` that
the bridge implements the promise to the operator. `MC*` modules only give
constants to TLC (`MCServiceOrder` also puts the replay lab beside the pipeline, and
`MCSignalRuntime` the simulated junction beside the runtime: the two share no state, and
a behaviour is one of the one or one of the other); `*Proofs` modules hold theorems. Modules with history variables (`passed`, `sinceGreen`,
`dropped`, `seenAgo`, `emptyResults`) conjoin them to the steps of the module they
extend and never restrict it.

### TrafficPipeline and SignalScheduler

One action is one call of `process_step` (`CameraStep`, `TickerStep`), one
operator reset, one reconfiguration or one tick of time; the pipeline's lock makes
the calls atomic. A call observes its frames (`ObserveFrames`: history, last
detector result, ages) and then ends in one of three ways: `KeepPhase` (which
includes the early release of an empty approach), `HoldAllRed` or `Grant`. The
timestamps of the code are kept as the time since them, in ticks, and stop at a cap
above which no comparison of the code can tell them apart (`AgeCap`,
`ElapsedCap`, `DetectionCap`, `Release`); `PhaseCap` stops the phase numbers. Two clocks
run beside each other: the code takes the age of a lane, of the phase and of an empty
approach from `time.monotonic()` in the step, and the cadence of the detector from the
receipt of the frame (`server/frame_coordinator.py:10`). Between the two a frame waits
for its batch, behind other batches and for the detector, any time up to `FrameWait`:
`sinceDet` counts from the receipt of the frame the detector last ran on, `DetectorDue`
compares receipts, and so a projection may be processed up to a period and a wait after
the result it repeats. The code refuses frames older than 2.5 s when their batch begins;
the batch and the detector come on top. A lane
statistic is *empty*, *occupied* or *emergency*, the only things
`select_eligible` and the phase machine ask. The length of a green is any whole
number of seconds in the configured bounds: `GreenTime` translates the formula, and
`GreenTimeInBounds` proves that every value of it is among those choices. `Arrivals`
says which lanes report together: one at a time on the server, all on the desktop.

### VehicleTracks and ApproachDemand

The two look inside the statistic that `TrafficPipeline` only classifies. `Detect`
is a frame that finds the detector due: tracker, vehicle states, removal, raw
statistic, smoothing; `Preview` is a frame in between, which shows projections and
changes no state. Which tracks are found, and whether they have hardly moved, are
inputs. Scores are computed in integers (hundredths and ten-thousandths); the
moving average keeps its direction of rounding with a resolution of `Unit`.

### SignalRuntime and Esp32Interface

The jobs of the worker are a queue; a batch is decoded, detected, and then
alternates between a step of the phase machine and the output of its result, as
`process_batch` does. The ticker submits a step and, when it is done, its output as
a second job. A command is split where it awaits. Phases are numbered, so that
`announced` is the list of phases logged and sent. A write is accepted, accepted
without acknowledgement, refused or fails.

### CameraSessions and FrameCoordinator

A handler is one action up to the point where it awaits: `Register` ends in
`connect` waiting for the socket it replaces, and `ReplacementDone` is the rest;
`SocketLost` and `EndpointLeaves` are the two halves of the endpoint's `finally`;
`TickerSweeps` and `TickerSweepsNext` split the ticker's loop over expired nodes;
`Disconnect` and `ClearFeed` the operator's command. Sessions are numbered in the
order of their creation, and a picture on the feed is the number of its session. A
batch is decoded and detected in one action, because its outcome only matters when
the coordinator publishes it, result by result.

### VideoPeers

Peers are numbered in the order of their offers; each has the point its offer has
reached, a receiver, a sampler, `latest` and `ready`. `_close_peer` is taken apart
at its awaits and may be under way several times for the same peer. An offer may
fail or run into its time limit at each of its awaits (`OfferFault`).

### CommandBridge

One variable per party and per channel: what the client was told, the listener's
subscription, the messages Redis has delivered to it, the command it holds and the
answer key. Faults (a connection, Redis, the camera server) may strike between any
two steps, `MaxFaults` times. A client is told "refused" only where the code
returns before it publishes.

### LocalSource and TelemetryMirror

Each half-second loop is an action; `turns` sees to it that every loop has its turn
between two ticks, unless a fault makes it late. All timestamps are ages. A snapshot
carries the running flag and the age of the picture; which picture stands under the
picture's key is not kept (see section 7).

### DesktopConfig, DesktopCameras and DesktopSystem

`DesktopConfig` has the answers the wizard accepts and the checks they pass, as sets
of configurations. `Opened` and `ReadFrame` are `CameraStream.open` and `read`,
with a device that may refuse a second capture. `DesktopSystem` walks through
`main`: profile (absent, cut short, other version, whole), wizard, validation,
saving in two steps, cameras, hardware, loop, the ways it ends, `release`, and a
kill at any point, after which the program may be started again.

### DigitalIntersection

`StepSimulation(dt)` is `step_simulation`, with its ways to end as operators;
statistics are an input of each step.

### ReplayLab

A run is one scenario, stepped by `ReplayStep`; its bounds are the lab's. The state is
the record a run returns, so that the measures are checked and not only the greens.

## 3. Runs

Passing runs:

| Run | Question | Bounds and why they suffice |
|---|---|---|
| `pipeline` | Do decisions and early ends rest on detections, does the command follow the decision, and is an approach with lasting demand served again and again? | two approaches; yellow and all-red of a second, greens of one or two; a detector period equal to the release window and a wait of half a second, so that a projection may come within the window, at its end and after it; resets and reconfiguration |
| `clearance` | Is every pair of conflicting greens separated, and is the colour order kept? | half-second ticks, so that the rounding of an early end exists; greens of one and two seconds, so that a green ends early and late; resets at any time; frames of disconnected cameras, which may empty a lane at any time and stand for what a wait would let a projection show (no `FrameWait`) |
| `service_order` | Is an approach passed over fewer times than there are approaches? Are the scripted scenarios served fairly? | three approaches, the smallest number where passing over twice is possible; all scenarios of the lab with 24 steps and three pairs of bounds (default, widest, equal); a detector result with every frame, so that no wait is needed |
| `runtime` | Is every phase announced once and in the end, does a pause drain, and does the queue of the executor stay short? Does the simulated junction keep greens watched, clearance and colour order? | a serial port that may fail, two frames in a batch, three phases, all commands of one operator; beside it three simulated approaches, steps that hit and overshoot the end of a colour |
| `cameras` | One owner per direction; feed and counters. | two cameras that compete for one direction, three sockets and three sessions: a camera can be replaced by itself and by the other; two frames, so that one waits or is computed while the other arrives |
| `perception` | Do vehicles count with evidence, and does the green follow an approach's own demand? | a motorcycle and a truck, the lightest and a heavy class, of which the truck may be a priority vehicle; every order of seen, lost and forgotten; the Raspberry Pi's times in seconds |
| `commands` | Does the bridge keep its promise under faults, and does it recover? | three commands, so that one can be overtaken by a later one while a third waits; two faults, one to lose an answer and one to lose the reconnection |
| `media` | Does everything of a peer end with its session, and is no task unowned? | two registrations and two offers: an offer can be replaced by one of the same and of the next registration |
| `desktop` | Does the program run what was configured, log what it sends, and find its cameras again? | two approaches; two devices, an address and a mistyped one, so that sources can be shared, invalid and mixed; any number of starts |
| `mirror` | Is what the backend says and shows recent, and is a camera that works shown? | times of two turns; one fault, which may be as long as the process likes |

Each violation run checks one statement of the documentation, and TLC finds a
behaviour of the code that contradicts it:

| Run | Statement | What the counterexample shows |
|---|---|---|
| `clearance_emergency` | `docs/TECHNICAL_REVIEW_QA.md:141` | an emergency takes the green over with neither yellow nor all-red |
| `early_end` | `config/signal.py:11` | with a detector period of a second (the Raspberry Pi profile) a frame that waited half a second for its step is a projection of the one empty detector result, and as the second observation it ends the green; `PromptEarlyEndIsConfirmed` says when this cannot happen |

`ClearanceHeld`, `ServedWithinOneCycle` and `ClearanceKept` state their exceptions
openly: a clearance the operator (or a hold of the simulation) dropped, and
approaches that report emergencies. Deadlock is checked except in `cameras`,
`commands` and `media`: there the sockets may all be closed, the requests answered
or the offers used up, and nothing is left to happen.

## 4. Fairness

| Run | Assumed | Why the code justifies it |
|---|---|---|
| `pipeline` | weak fairness of the clock and of a step without frames | the ticker task runs every half second and catches its exceptions; no camera need ever send |
| `runtime` | weak fairness of the worker and of the threads of START and of a reset; strong fairness of the resumption of the ticker and of a command whose await is over | asyncio resumes ready handlers in order, while between two turns another handler may occupy the loop; no frame and no command need ever come |
| `commands` | weak fairness of the listener and of each client's poll | `start_listener` retries for ever, a client polls in a loop with a bound; faults are finite |
| `media` | weak fairness of the tasks that close and of the offers, and of the media of a peer that is received | ready tasks get their turn, an offer has ten seconds, and a receiver gets frames, the end of its track, or a connection that fails for want of consent |
| `desktop` | weak fairness of the loop | the loop never waits for anything but its own reads; no user need ever answer |
| `mirror` | weak fairness of the steps of the loops and of time, and of the server's connection to Redis | each loop sleeps half a second and catches its exceptions; Redis answers in the end |

`CountSettles` needs none: its premise is that frames go on being detected and that
the number of confirmed vehicles stays the same. `clearance`, `service_order`,
`cameras` and `perception` check safety only, as does the simulated junction in `runtime`.

## 5. Proofs

All theorems hold for every value of the constants that satisfies the named
assumptions; each proof is by an inductive invariant.

| Theorem | Statement | Argument |
|---|---|---|
| `TypeCorrect` | types of the phase machine | inductive as it stands |
| `CommandAlwaysMatches` | `CommandMatchesDecision` | `PhaseInv` adds that a decision names an approach and lasts at least a second, which keeps a cut green below the command's |
| `GreenTimeInBounds` | what `_calculate_green_time` returns is one of the durations `Grant` chooses from | arithmetic, from `TypeOK` for the bounds in force |
| `GreenGrowsWithLoad`, `FullLoadGetsLongestGreen` | of `GreenTime`, when there is PCE or queue: at least as much of both never gets a shorter green, whatever the scores; full PCE and queue get the maximum | `RoundingGrows`: rounding half to even is monotone; `RoundingExact`: it leaves multiples alone |
| `OneApproachIsNext` | of `SelectEligible`: without emergencies it leaves `Grant` exactly one approach while there is demand | a least distance from the cursor exists, and `DistanceSeparates` |
| `HistoriesArePipeline` | `EvidenceSpec`, `ServiceSpec` and `ClearanceSpec` imply `Spec` | step by step; so `TypeCorrect` and `CommandAlwaysMatches` hold under each of them, as the runs check them |
| `PassesBounded`, `RoundRobin` | `PassesBoundedByDistance`, `ServedWithinOneCycle` | every pass moves the cursor closer to the approach that waits; assumes `EmergencyLanes = {}` |
| `ClearanceAlwaysHeld` | `ClearanceHeld` | `ClearanceInv` relates every stopwatch to the clock of the running phase: the time another approach has been without green is at least the time since the phase began plus the clearance of the phase before, unless that clearance was dropped; an early end moves the end of the green at most `Rounding` into the past; assumes `EmergencyLanes = {}` |
| `HeadImplemented` | `ImplementsHead` | each step of the phase machine maps to a step of `SignalHead` or to none; the tick lemma needs that yellow and all-red last at least a tick |
| `DemandAlwaysRecent` | `DemandIsRecent` | `EvidenceInv`: the last picture with a vehicle is at most a detector period and the longest wait older than the age of a lane with demand; a projection says no more than that |
| `EarlyEndAlwaysHasEvidence` | `EarlyEndHasEvidence` | `EarlyInv`: a phase begins with a lane whose last result showed a vehicle, so a lane that is empty now has been found so since; and while only one result has, it is as old as the time the lane has been empty, unless the detector is due for every frame that may still come and brings the second. Assumes connected cameras (as in the server), and nothing of detector rate or waits |
| `PromptEarlyEndIsConfirmed` | `EarlyEndIsConfirmed`, which `early_end` violates | also from `EarlyInv`; assumes that a detector period and the longest wait together fit in the release window: a projection is then younger than the window. The laptop profile (0.5 s) leaves half a second for the wait, the Raspberry Pi's (1.0 s) nothing |
| `OneCamera` | `OneCameraPerDirection` | `create_session` evicts what the check before the await could not see |
| `FeedIsMonotone` | `FeedNeverGoesBack` | a live session of a direction is at least as new as its picture, and frames carry nodes of their slot's direction |
| `DisconnectedGone` | `DisconnectedStaysGone` | a live session is not revoked and has its picture on no other direction, so revoking it can only touch the direction whose feed is about to be cleared; live sessions have different tokens |
| `NeverCountedTwiceAlways` | `NeverCountedTwice` | `CountInv`: the counters, the filled slots and the frames of the batch add up to at most the frames received; by the cardinalities of the two sets |
| `RuntimeTypes` | types of the runtime and the interface; at most one job of a kind in the executor's queue | needs that the worker is inside a batch only while that is the first job |
| `NeverAnnouncedTwice` | `AnnouncedOnce` | `RuntimeInv`: at most one job of each kind is queued, and a result that is on its way to the output has a phase that is not announced and that the other result does not have |
| `PauseAlwaysDrains` | `PauseDrains` | also from `RuntimeInv`: once paused, the steps made, the frames decoded and the ticker's step add up to at most the bound, and no frame is decoded any more |
| `GreenAlwaysWatched` | `GreenIsWatched` | `SimInv`: a green has an AI that runs and a camera that works; the lemma `WinnerIsWatched` says that the scheduler only picks such an approach |
| `SimulationIsHead` | `SimulationImplementsHead` | each step, dropout and stall maps to a step of `SignalHead` or to none |
| `ClearanceAlwaysKept` | `ClearanceKept` | `ClearanceInv`: a stopwatch has at least what has run of yellow and all-red, and the end of a colour is never carried over into the next |
| `SourceAlwaysOutlives` | `SourceOutlivesCamera` | `SourceInv`: the age of the session is bounded by the time since the pump last ran, whatever the camera does |
| `MirrorAlwaysRecent` | `MirrorIsRecent` | `MirrorInv` (`ServerInv`, `BackendInv`): every age the backend trusts, plus the turns still owed and the faults so far, bounds how long ago the thing was so; one conjunct for each hand it passes through |
| `PromiseKept` | `ImplementsPromise` | `BridgeInv`: a request is in the inbox, held, or done, and runs only on its way from the second to the third; an answer "success" exists only for one that ran |
| `NothingLostWithoutFault` | `LostOnlyByFaults` | `LossInv`: without a fault the subscription stays once it is there, and all that was published before was refused |
| `EvidenceAlways` | `OnlyEvidenceCounts` | `TracksInv`: the boxes of the tracker are the states that are alive, at every frame |
| `QueueAlwaysWithinStay` | `QueueWithinStay` | also from `TracksInv`: a track gains at most one slow frame with each frame it is seen in, so that it cannot queue before it is confirmed |
| `OccupiedAlwaysHasScore`, `OwnDemandAlwaysDecides` | `OccupiedHasScore`, `OwnDemandDecides` | `DemandInv`: what the scheduler is told of an approach with a vehicle has congestion, and its PCE is rounded away only with its count. Rests on `PceCounts`: each vehicle adds at least one hundredth |
| `ReplayAlwaysServesFairly` | `ReplayServesFairly` | `LabInv`: a record is what the scheduler returns for its step, and an approach that was fresh and passed over `m` times is at most `3 - m` approaches from the cursor; `GivenGrows`: the green of a loaded approach is monotone in its load |
| `PeersTypesAlways` | `PeersTypeOK` | `NodeOK` for what registrations and sockets change, `PeersOK` for the offers, tasks and closings: the node has the newest peer or none |
| `NoOrphanTaskEver` | `NoOrphanTask` | also from `PeersOK`, whose part `Cared` follows every record on its own: a peer with a task is the node's, or its offer is negotiating |
| `WaitingFrameAlwaysAnnounced` | `WaitingFrameIsAnnounced` | also from `PeersOK`, whose part `PeerOK` adds that a peer without a receiver has no frame and one that replaces another no task |
| `AlwaysRunsAsConfigured` | `RunsAsConfigured` | `DesktopInv`: from which stage of the start-up on the configuration in hand names every approach or is the whole profile's, and what `main` has checked when it loops |
| `SentAlwaysLogged` | `SentIsLogged` | also from `DesktopInv`: the loop is past the logging when it writes |
| `AcknowledgedAlwaysLast` | `AcknowledgedIsLast` | the part `InboxOrdered` of `BridgeInv`: the inbox is in the order of publication, and what is answered was published before everything in it |

What the runs check and no theorem proves is liveness, which is out of the prover's
reach: `DemandIsServed`, `PhasesAreAnnounced`, `ListenerReturns`,
`PeersEndWithSession`, `CameraComesBack`, `CameraIsShown` and `CountSettles`. All
safety properties of the runs are proved.

The weights of the vehicles of an approach are added up by a fold of the community
modules, a function on the subsets of the tracks that `CHOOSE` picks. That such a
function exists, and what it adds up to, is an induction over data: the theorems of
the library that take an operator cannot be used, so `VehicleTracksProofs` reasons
with the least counterexample (`LeastNatural`, from `WFMin`). `SumsExist` builds the
function for sets of `n` elements from the one for `n - 1`; `SumsBounded` bounds its
values.

| Module | What is proved there |
|---|---|
| `TrafficPipelineProofs` | the phase machine, its evidence, its service order and its clearance |
| `VehicleTracksProofs` | the vehicles of an approach, and what the scheduler is told of them |
| `SignalRuntimeProofs` | runtime, worker, ticker and serial interface |
| `FrameCoordinatorProofs` | sessions, slots and feeds of the cameras |
| `CameraSourceProofs` | the WebRTC peers, and the desktop program with its cameras |
| `CommandBridgeProofs` | the commands between the two containers |
| `TelemetryMirrorProofs` | the local source, and what the backend says of the server |
| `IntersectionProofs` | the digital intersection and the replay lab |

## 6. Assumptions on the environment

Time is a global clock that is the same for all threads and containers. What the
proofs assume of the constants are named `ASSUME`s, evaluated by TLC on every run.
A frame may wait for its step up to
`FrameWait`, which the proofs leave open and `pipeline` sets to half a second. A node id
and a request id are given out once. A socket is used by one client. A
tick of the model may fall between any two calls, never inside one. Redis delivers a
publication in order to a subscriber that is there, and keeps nothing for one that
is not. A detector may report any set of the tracks at any frame. An operating
system may or may not give a camera to two captures at a time. In `TelemetryMirror`
a loop without a fault has one turn in every tick.

## 7. Differences between code and documentation

Beside the violation runs, these were met while the code was translated; the models
have the behaviour of the code.

- After STOP or RESTART the next green follows the forgotten one with no clearance
  (`docs/TEST_STRATEGY.md:65`, `server/runtime.py:171`); `dropped` in `ClearanceTiming`.
- A batch under way grants and sends a phase after STOP has reset it (`README.md:361`,
  `server/frame_coordinator.py:64`); `PauseDrains` bounds it.
- A START whose hardware check came before a failed write undoes the pause of that
  write (`server/runtime.py:157`).
- The frames of a removed session still drive the phase machine; only their
  publication is refused (`server/frame_coordinator.py:66`).
- An older registration that waited for a socket removes the one that was
  acknowledged meanwhile (`server/websocket_server.py:22`, `server/connection_manager.py:27`).
- With all streams stale the snapshot reports ALL_RED_HOLD and still shows a green
  (`docs/RELIABILITY_AUDIT.md:18`, `ai/pipeline/digital_intersection.py:388`);
  `get_snapshot` reads the decision and its start without the pipeline's lock (`:314`).
- An approach with one light vehicle that was not smoothed in yet has neither PCE nor
  queue and gets the maximum green, since it then holds the whole score
  (`ai/signal/signal_scheduler.py:149`, `ai/state/count_stabilizer.py:161`).
- An emergency takes the cursor with it, so that between emergencies the turns behind
  it repeat (`ai/signal/signal_scheduler.py:92`, `:105`). Its boost of 1000 is finite,
  the score of a queue is not bounded.
- The phase counter is also raised by steps that grant nothing
  (`ai/pipeline/traffic_pipeline.py:441`), and the cycle count is derived from it
  (`ai/pipeline/digital_intersection.py:396`).
- The low-motion counter of a vehicle grows without bound
  (`ai/state/vehicle_state_manager.py:144`), and whether it is a priority vehicle is
  decided when it is first seen (`:112`).
- After a failed write the interface stays in ERROR: `reconnect` is called from
  nowhere in the server, which then refuses START for good (`ai/hardware/esp32_interface.py:131`).
- Snapshot and picture are two keys: after a pause of the server, a poll between the
  two pairs a new LIVE snapshot with an old picture until the next poll
  (`websocket-server/app/services/redis_broadcaster.py:46`,
  `app-backend/app/services/camera_service.py:40`).
- Before its first contact with Redis the backend says that the system runs.
- The shipped profile has the mobile mode and no sources: the desktop loop ends at
  once. `main.py` ignores `system_running`, which a failed write clears.
- `is_pipeline_stalled` is set nowhere; the worker loop at
  `server/message_handler.py:317` is started by nothing; `fairness_manager` is called
  from nothing in the running system.

## 8. Not modelled

- Drawing, wording, logging formats, file rotation, metrics and read-only reports:
  nothing the control depends on.
- The web user interface, operator login and rate limits: no decision about the signal
  is taken there.
- The detector's inference, the association of boxes, lane geometry, the metric
  calibration of queues: numeric; a nondeterministic result stands for them, and
  `VehicleTracks` shows what is made of it.
- Offline scripts that measure, evaluate, label or convert data
  (`scripts/`, `ai/evaluation`), and the density classes and stability metrics of the
  reports.
- The shutdown of the server and of the local sources; START_STREAM and STOP_STREAM of
  the camera protocol; camera events and logs that are published for information; the
  telemetry socket.
- The firmware of the ESP32, which is not in the repository: its answer is any.
- The content of a snapshot of the live system (`get_snapshot`), a function of state
  that is modelled, and which changes none.
- An exception of the decision logger, and a bound on waiting under emergencies, which
  the code does not promise.
