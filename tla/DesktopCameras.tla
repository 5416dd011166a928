--------------------------- MODULE DesktopCameras ---------------------------
(***************************************************************************)
(* CameraManager and its CameraStreams (ai/camera): each stream holds one  *)
(* capture, which read opens again when it has failed.                     *)
(*                                                                         *)
(* open makes the new capture while the stream still holds the old one, so *)
(* that a camera which the operating system gives to one capture at a time *)
(* refuses its own stream once.  Whether a held camera is given twice is   *)
(* the operating system's choice.  A video that has ended is rewound and   *)
(* read again by the same call, and its data always follow.                *)
(***************************************************************************)
EXTENDS DesktopConfig, Sequences, Functions

CONSTANT LaneOrder      \* the order in which the dictionary has the approaches

ASSUME LaneOrderAssumption == Lane = Range(LaneOrder)

VARIABLES
  config,       \* the StartupConfig in use
  working,      \* the sources of config that answer at present
  capture,      \* stream.capture by approach: "none", "shut" or "open" (isOpened)
  live          \* the approaches whose stream has connected set

cameraVars == <<config, working, capture, live>>

Streams == DOMAIN config.sources

OnDevices == {l \in Streams : config.sources[l] \in Device}

(* What may answer, of the sources that a configuration names              *)
Answering(cfg) == Range(cfg.sources) \ Bare

CamerasTypeOK ==
  /\ config \in Config
  /\ working \subseteq Answering(config)
  /\ capture \in [Lane -> {"none", "shut", "open"}]
  /\ live \subseteq Lane

CamerasInit ==
  /\ config = DefaultConfig
  /\ working = {}
  /\ capture = [l \in Lane |-> "none"]
  /\ live = {}

-----------------------------------------------------------------------------
(* The streams that hold the camera of approach l, its own included.       *)
Held(cams, l) ==
  /\ config.sources[l] \in Device
  /\ \E k \in Streams : config.sources[k] = config.sources[l] /\ cams.capture[k] = "open"

(* open, of approach l; a held camera is given again to those in shares.   *)
Opened(cams, l, shares) ==
  IF config.sources[l] \in working /\ (Held(cams, l) => l \in shares)
  THEN [capture |-> [cams.capture EXCEPT ![l] = "open"], live |-> cams.live \cup {l}]
  ELSE [capture |-> [cams.capture EXCEPT ![l] = "shut"], live |-> cams.live \ {l}]

(* The read of an open capture: a failed one leaves it open.               *)
FrameTaken(cams, l) ==
  IF config.sources[l] \in working THEN cams ELSE [cams EXCEPT !.live = @ \ {l}]

(* Mutant of ReadFrame: a stream that failed is not opened again.          *)
ReadFrame_NoReopen(cams, l, shares) ==
  IF l \in cams.live /\ cams.capture[l] = "open" THEN FrameTaken(cams, l) ELSE cams

(* read                                                                    *)
ReadFrame(cams, l, shares) ==
  LET ready == IF l \in cams.live /\ cams.capture[l] = "open" THEN cams
               ELSE Opened(cams, l, shares)
  IN IF l \in ready.live THEN FrameTaken(ready, l) ELSE ready

Cameras == [capture |-> capture, live |-> live]

BecomeCameras(cams) == capture' = cams.capture /\ live' = cams.live

(***************************************************************************)
(* The streams one after the other: after[i] is what the first i           *)
(* approaches leave.                                                       *)
(***************************************************************************)
AllOpened(shares) ==
  LET after[i \in 0..Len(LaneOrder)] ==
        IF i = 0 THEN Cameras
        ELSE IF LaneOrder[i] \in Streams THEN Opened(after[i - 1], LaneOrder[i], shares)
        ELSE after[i - 1]
  IN after[Len(LaneOrder)]

AllRead(shares) ==
  LET after[i \in 0..Len(LaneOrder)] ==
        IF i = 0 THEN Cameras
        ELSE IF LaneOrder[i] \in Streams THEN ReadFrame(after[i - 1], LaneOrder[i], shares)
        ELSE after[i - 1]
  IN after[Len(LaneOrder)]

(* CameraManager.__init__, once the sources have passed their check        *)
OpenAll == \E shares \in SUBSET OnDevices : BecomeCameras(AllOpened(shares))

ReadAll == \E shares \in SUBSET OnDevices : BecomeCameras(AllRead(shares))

StopAll == capture' = [l \in Lane |-> "none"] /\ live' = {}

(* A camera is unplugged or comes back, a video is removed.                *)
SourceChanges ==
  /\ \E s \in Answering(config) :
       working' = IF s \in working THEN working \ {s} ELSE working \cup {s}
  /\ UNCHANGED <<config, capture, live>>
=============================================================================
