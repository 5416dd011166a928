---------------------------- MODULE DesktopSystem ----------------------------
(***************************************************************************)
(* The desktop program, main.py: the start with its profile on disk and    *)
(* its wizards (startup/), the cameras it opens, the loop that reads them, *)
(* decides, logs and sends (ai/controller/control_manager.py), the release *)
(* of everything, and a process that is killed at any moment.              *)
(*                                                                         *)
(* What the pipeline decides is TrafficPipeline's: here a step grants a    *)
(* phase or not.  The file of the profile is absent, cut short ("damaged", *)
(* from the moment it is opened for writing), of another version, or       *)
(* whole.  The CSV file, the JSON lines and the history in memory are one  *)
(* audit: whether they were given the last granted phase.  That a file may *)
(* silently fail to take it is left out.                                   *)
(***************************************************************************)
EXTENDS DesktopCameras

VARIABLES
  stage,        \* where main is
  profile,      \* config/runtime_config.json
  audited,      \* whether the loggers were given the last granted phase
  device,       \* the phase the output took: "none", "older" or "last" (granted)
  hardware, connected, port     \* the Esp32Interface

logVars == <<audited, device>>
outputVars == <<hardware, connected, port>>
vars == <<cameraVars, stage, profile, logVars, outputVars>>

Simulated == INSTANCE Esp32Interface WITH Simulation <- TRUE, PortConfigured <- TRUE
Serial == INSTANCE Esp32Interface WITH Simulation <- FALSE, PortConfigured <- TRUE

Starting == {"reuse", "wizard", "save", "writing", "check", "launch"}
InLoop == {"loop", "decided", "logged"}

Profile == [state : {"absent", "damaged", "foreign", "whole"}, config : Config]

NoProfile(state) == [state |-> state, config |-> DefaultConfig]

TypeOK ==
  /\ CamerasTypeOK
  /\ stage \in {"off", "closing"} \cup Starting \cup InLoop
  /\ profile \in Profile
  /\ audited \in BOOLEAN
  /\ device \in {"none", "older", "last"}
  /\ Serial!HardwareTypeOK

(* The process is gone, and with it its memory and its handles.            *)
Exit ==
  /\ stage' = "off"
  /\ config' = DefaultConfig /\ working' = {}
  /\ StopAll
  /\ hardware' = "DISCONNECTED" /\ connected' = FALSE /\ port' = "none"

Init ==
  /\ CamerasInit
  /\ stage = "off"
  /\ profile \in {NoProfile("absent"), NoProfile("foreign"), NoProfile("whole")}
  /\ audited = FALSE
  /\ device = "none"
  /\ hardware = "DISCONNECTED" /\ connected = FALSE /\ port = "none"

-----------------------------------------------------------------------------
(* The start                                                               *)

(* Mutant of Loaded: what cannot be read counts as the defaults.           *)
Loaded_OrDefault == profile.state # "absent"

(* load_profile returns a configuration.                                   *)
Loaded == profile.state = "whole"

Start ==
  /\ stage = "off"
  /\ stage' = IF Loaded THEN "reuse" ELSE "wizard"
  /\ config' = profile.config
  /\ working' \in SUBSET Answering(profile.config)
  /\ UNCHANGED <<capture, live, profile, logVars, outputVars>>

AcceptProfile ==
  /\ stage = "reuse"
  /\ stage' = IF Valid(config, working) THEN "launch" ELSE "wizard"
  /\ UNCHANGED <<cameraVars, profile, logVars, outputVars>>

DeclineProfile ==
  /\ stage = "reuse"
  /\ stage' = "wizard"
  /\ UNCHANGED <<cameraVars, profile, logVars, outputVars>>

Wizard ==
  /\ stage = "wizard"
  /\ \E cfg \in WizardConfigs :
       /\ config' = cfg
       /\ working' \in SUBSET Answering(cfg)
  /\ stage' = "save"
  /\ UNCHANGED <<capture, live, profile, logVars, outputVars>>

(* save_profile cannot open its file, and says so in the log only.         *)
SaveRefused ==
  /\ stage = "save"
  /\ stage' = "check"
  /\ UNCHANGED <<cameraVars, profile, logVars, outputVars>>

BeginSave ==
  /\ stage = "save"
  /\ profile' = NoProfile("damaged")
  /\ stage' = "writing"
  /\ UNCHANGED <<cameraVars, logVars, outputVars>>

(* The file is written and closed, or the writing fails.                   *)
EndSave ==
  /\ stage = "writing"
  /\ profile' \in {[state |-> "whole", config |-> config], profile}
  /\ stage' = "check"
  /\ UNCHANGED <<cameraVars, logVars, outputVars>>

(* The new configuration is validated after it was saved.                  *)
CheckNew ==
  /\ stage = "check"
  /\ IF Valid(config, working)
     THEN stage' = "launch" /\ UNCHANGED <<cameraVars, outputVars>>
     ELSE Exit
  /\ UNCHANGED <<profile, logVars>>

(* The sources are not there, and the process exits.                       *)
LaunchRefused ==
  /\ stage = "launch"
  /\ ~FilesExist(config, working)
  /\ Exit
  /\ UNCHANGED <<profile, logVars>>

(* ESP32Interface.__init__ in simulation, or with a serial port            *)
Connect == Simulated!Reconnect \/ Serial!Reconnect

Simulating == hardware = "SIMULATION"

(* CameraManager, ControlManager and TrafficPipeline are made.             *)
Launch ==
  /\ stage = "launch"
  /\ FilesExist(config, working)
  /\ OpenAll
  /\ Connect
  /\ stage' = "loop"
  /\ UNCHANGED <<config, working, profile, logVars>>

-----------------------------------------------------------------------------
(* The loop                                                                *)

(* process_step, without a decision to announce                            *)
Step ==
  /\ stage = "loop"
  /\ Streams # {}
  /\ UNCHANGED <<config, working, stage, profile, logVars, outputVars>>
  /\ ReadAll

(* process_step grants a phase, which needs no frame of its own.           *)
StepGrants ==
  /\ stage = "loop"
  /\ Streams # {}
  /\ stage' = "decided"
  /\ audited' = FALSE
  /\ device' = IF device = "none" THEN "none" ELSE "older"
  /\ UNCHANGED <<config, working, profile, outputVars>>
  /\ ReadAll

(* Without a camera stream has_frame is false and the loop ends.           *)
NoStreams ==
  /\ stage = "loop"
  /\ Streams = {}
  /\ stage' = "closing"
  /\ UNCHANGED <<cameraVars, profile, logVars, outputVars>>

(* log_decision                                                            *)
LogDecision ==
  /\ stage = "decided"
  /\ audited' = TRUE
  /\ stage' = "logged"
  /\ UNCHANGED <<cameraVars, profile, device, outputVars>>

SendAccepted ==
  /\ IF Simulating THEN Simulated!SendAccepted ELSE Serial!SendAccepted
  /\ device' = "last"

(* system_running is cleared, at which this program never looks.           *)
SendRefused == ~Simulating /\ Serial!SendRefused /\ UNCHANGED device

(* Mutant of SendCommand: a phase is sent before it is logged.             *)
SendCommand_First ==
  /\ stage = "decided"
  /\ SendAccepted \/ SendRefused
  /\ stage' = "loop"
  /\ UNCHANGED <<cameraVars, profile, audited>>

(* send_command, and the picture of the dashboard after it                 *)
SendCommand ==
  /\ stage = "logged"
  /\ SendAccepted \/ SendRefused
  /\ stage' = "loop"
  /\ UNCHANGED <<cameraVars, profile, audited>>

(* The key q, the closed window, Ctrl+C or an exception in a step          *)
LeaveLoop ==
  /\ stage \in InLoop
  /\ stage' = "closing"
  /\ UNCHANGED <<cameraVars, profile, logVars, outputVars>>

(* The two releases of main's finally clause, with which the program ends  *)
Release ==
  /\ stage = "closing"
  /\ Exit
  /\ UNCHANGED <<profile, logVars>>

-----------------------------------------------------------------------------
(***************************************************************************)
(* The process is killed, or exits since a subsystem could not be made.    *)
(* Its handles go with it; the file and the device keep what they have.    *)
(***************************************************************************)
Killed ==
  /\ stage # "off"
  /\ Exit
  /\ UNCHANGED <<profile, logVars>>

WorldChanges ==
  /\ stage \in {"launch"} \cup InLoop
  /\ SourceChanges
  /\ UNCHANGED <<stage, profile, logVars, outputVars>>

Next ==
  \/ Start \/ AcceptProfile \/ DeclineProfile \/ Wizard
  \/ SaveRefused \/ BeginSave \/ EndSave \/ CheckNew \/ LaunchRefused \/ Launch
  \/ Step \/ StepGrants \/ NoStreams \/ LogDecision \/ SendCommand
  \/ LeaveLoop \/ Release \/ Killed \/ WorldChanges

(* The loop never waits: reads, files and writes return.                   *)
LoopRuns == (Step \/ StepGrants) \/ LogDecision \/ SendCommand

Spec == Init /\ [][Next]_vars

FairSpec == Spec /\ WF_vars(LoopRuns)

-----------------------------------------------------------------------------
(***************************************************************************)
(* Whatever became of the profile - an older version's, or cut short by a  *)
(* crash or a full disk - and whichever way a configuration took through   *)
(* prompts and checks, the loop runs on a source for every approach that   *)
(* can be one, or on what a whole profile says (startup_manager.py: return *)
(* validated StartupConfig object).                                        *)
(***************************************************************************)
RunsAsConfigured ==
  stage \in InLoop =>
    /\ Streams = Lane \/ (profile.state = "whole" /\ profile.config = config)
    /\ \A l \in Streams : config.sources[l] \notin Bare

(***************************************************************************)
(* control_manager.py logs before it transmits: wherever the process is    *)
(* killed, the phase that the signal head took is one the audit was given. *)
(***************************************************************************)
SentIsLogged == device = "last" => audited

(* Approach l has its source for itself, and it answers while main loops.  *)
Answers(l) ==
  /\ stage \in InLoop
  /\ l \in Streams /\ config.sources[l] \in working
  /\ \A k \in Streams \ {l} : config.sources[k] # config.sources[l]

(***************************************************************************)
(* camera_stream.py: "Try reconnecting if currently disconnected": a       *)
(* camera that answers again is read again, also one that its own old      *)
(* capture still occupies.                                                 *)
(***************************************************************************)
CameraComesBack == \A l \in Lane : Answers(l) ~> (l \in live \/ ~Answers(l))
=============================================================================
