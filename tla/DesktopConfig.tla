---------------------------- MODULE DesktopConfig ----------------------------
(***************************************************************************)
(* The configurations of the desktop program and the checks they pass: the *)
(* wizards of startup/camera_setup.py and hardware_setup.py, the records   *)
(* of startup_config.py, ConfigValidator, and the check of the sources in  *)
(* ai/camera/stream_config.py.                                             *)
(*                                                                         *)
(* A source is a camera index, a network address, the demo video of the    *)
(* approach, or an address typed without its scheme, which everything      *)
(* after the wizard takes for a file.  Of a configuration only the cameras *)
(* are kept: the choice between a serial port and simulation may be either *)
(* at every launch, and the runtime and debug settings only choose outputs *)
(***************************************************************************)
EXTENDS Naturals

CONSTANTS
  Lane,       \* ConfigValidator.REQUIRED_LANES
  Device,     \* indices of cameras
  Url,        \* addresses with http://, https:// or rtsp://
  Bare,       \* addresses without: no file has such a name
  Video       \* the demo videos, one for each approach

ASSUME SourceAssumption ==
  /\ Device \cap Url = {} /\ Device \cap Bare = {} /\ Url \cap Bare = {}
  /\ Video \notin Device \cup Url \cup Bare

Source == Device \cup Url \cup Bare \cup {Video}

Mode == {"mobile", "usb", "rtsp", "webcam", "demo"}

(* CameraConfig; sources need not have every approach.                     *)
Config == [mode : Mode, sources : UNION {[S -> Source] : S \in SUBSET Lane}]

(* The dataclass defaults, and config/runtime_config.json as it is shipped *)
DefaultConfig == [mode |-> "mobile", sources |-> [l \in {} |-> Video]]

-----------------------------------------------------------------------------
(***************************************************************************)
(* The camera wizards.  An empty answer, an end of input or a Ctrl+C takes *)
(* a default of the same kind, or the demo videos in the menu.             *)
(***************************************************************************)
MobileCameras == [mode : {"mobile"}, sources : [Lane -> Url \cup Bare]]

UsbCameras == [mode : {"usb"}, sources : [Lane -> Device]]

RtspCameras == [mode : {"rtsp"}, sources : [Lane -> Url \cup Bare]]

OneWebcam == [mode : {"webcam"}, sources : {[l \in Lane |-> d] : d \in Device}]

DemoVideos == [mode : {"demo"}, sources : {[l \in Lane |-> Video]}]

WizardConfigs == MobileCameras \cup UsbCameras \cup RtspCameras \cup OneWebcam \cup DemoVideos

-----------------------------------------------------------------------------
(***************************************************************************)
(* ConfigValidator.validate, where files is what can be opened: a source   *)
(* for every approach, except in mobile mode, and the demo videos; equal   *)
(* indices and addresses without a scheme are only warned of.              *)
(***************************************************************************)
Valid(cfg, files) ==
  /\ cfg.mode # "mobile" => Lane \subseteq DOMAIN cfg.sources
  /\ cfg.mode = "demo" => \A l \in DOMAIN cfg.sources : cfg.sources[l] \in files

(***************************************************************************)
(* validate_stream_sources, on which CameraManager insists whatever the    *)
(* mode: what is neither an index nor an address is a file.                *)
(***************************************************************************)
FilesExist(cfg, files) ==
  \A l \in DOMAIN cfg.sources : cfg.sources[l] \in Bare \cup {Video} => cfg.sources[l] \in files
=============================================================================
