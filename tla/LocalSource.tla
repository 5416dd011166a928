----------------------------- MODULE LocalSource -----------------------------
(***************************************************************************)
(* A local camera of the camera server (server/local_sources.py): a        *)
(* capture thread that keeps one latest frame, and the pump that renews    *)
(* the session which start created once, and submits the frame.            *)
(*                                                                         *)
(* One approach is modelled; each has its own thread, session and frame.   *)
(* The way of a submitted frame through the worker is FrameCoordinator's:  *)
(* here it is published in the turn that takes it.  Time is counted in     *)
(* turns of the half-second loops, as ages that stop at Limit.             *)
(***************************************************************************)
EXTENDS Naturals

CONSTANTS
  HeartbeatTimeout,   \* HEARTBEAT_TIMEOUT_SEC
  Fresh,              \* 3 s: a live frame, a snapshot to believe, a picture to show
  Limit               \* bound of the model: ages beyond it are not told apart

ASSUME SourceAssumption ==
  /\ HeartbeatTimeout \in Nat /\ Fresh \in Nat /\ Limit \in Nat
  /\ HeartbeatTimeout < Limit /\ Fresh < Limit

VARIABLES
  answers,    \* whether the device or the address can be read
  capture,    \* the capture thread: "new", "open" or "failed"
  session,    \* age of the session's last heartbeat, Never once it is removed
  pumped,     \* how long ago the pump last ran
  ended,      \* why the source may be over: "no", "operator" or "late"
  running,    \* system_running
  seen,       \* age of frame_updated_at, Never without a picture
  delivered   \* how long ago the last picture was published

sourceVars == <<answers, capture, session, pumped, ended, running, seen, delivered>>

Never == Limit + 1
Age == 0 .. Never

(* A turn later; from cap on, and without an age, nothing is told apart.   *)
Older(age, cap) == IF age < cap THEN age + 1 ELSE age

SourceTypeOK ==
  /\ answers \in BOOLEAN
  /\ capture \in {"new", "open", "failed"}
  /\ session \in Age /\ pumped \in Age /\ seen \in Age /\ delivered \in Age
  /\ ended \in {"no", "operator", "late"}
  /\ running \in BOOLEAN

(* start_runtime; without safe hardware the system starts paused.          *)
SourceInit ==
  /\ answers \in BOOLEAN
  /\ capture = "new"
  /\ session = 0 /\ pumped = 0 /\ ended = "no"
  /\ running \in BOOLEAN
  /\ seen = Never /\ delivered = Never

-----------------------------------------------------------------------------
(***************************************************************************)
(* The capture thread.  Its frames come faster than the turns, so the pump *)
(* finds one in every turn in which the camera is read.                    *)
(***************************************************************************)

(* Mutant of Opens: the outer loop is missing.                             *)
Opens_Once == answers /\ capture = "new" /\ capture' = "open"

(* The camera is opened, at first or two seconds after a failure.          *)
Opens == answers /\ capture # "open" /\ capture' = "open"

Reads == answers /\ capture = "open" /\ UNCHANGED capture

(* A failed open, a failed read, or an exception                           *)
Fails == ~answers /\ capture' = "failed"

CameraChanges ==
  /\ answers' = ~answers
  /\ UNCHANGED <<capture, session, pumped, ended, running, seen, delivered>>

-----------------------------------------------------------------------------
(***************************************************************************)
(* The pump, and what ends the session.                                    *)
(***************************************************************************)
Valid == session <= HeartbeatTimeout

(* submit_decoded_frame drops the frame unless the system runs.            *)
Submits == running /\ Valid

Published(frame) ==
  IF frame /\ Submits THEN seen' = 0 /\ delivered' = 0 ELSE UNCHANGED <<seen, delivered>>

(* Mutant of Pump: the heartbeat comes with the frames.                    *)
Pump_WithFrames(frame) ==
  /\ session' = IF frame /\ Submits THEN 0 ELSE session
  /\ Published(frame)
  /\ pumped' = 0

(* update_heartbeat refuses an expired session.                            *)
Pump(frame) ==
  /\ session' = IF Valid THEN 0 ELSE session
  /\ Published(frame)
  /\ pumped' = 0

SourceRuns ==
  /\ \/ (Opens \/ Fails) /\ Pump(FALSE)
     \/ Reads /\ Pump(TRUE)
  /\ UNCHANGED <<answers, ended, running>>

(* The ticker's sweep of expired sessions                                  *)
Swept == IF Valid THEN session ELSE Never

(* DISCONNECT; a camera that registers for the approach ends it as well.   *)
Disconnect ==
  /\ session' = IF Valid THEN Never ELSE session
  /\ seen' = Never
  /\ ended' = IF Valid THEN "operator" ELSE ended
  /\ UNCHANGED <<answers, capture, pumped, running, delivered>>

-----------------------------------------------------------------------------
(***************************************************************************)
(* START, STOP and RESTART with the pictures they clear; a START with      *)
(* unsafe hardware, or a failed write to it, pauses.  The streaming flag   *)
(* of the session follows system_running.                                  *)
(***************************************************************************)
Start == running' = TRUE /\ UNCHANGED seen
Stop == running' = FALSE /\ seen' = Never
FailClosed == running' = FALSE /\ UNCHANGED seen

Operate ==
  /\ Start \/ Stop \/ FailClosed
  /\ UNCHANGED <<answers, capture, session, pumped, ended, delivered>>

Restarted ==
  /\ running' = TRUE /\ seen' = Never
  /\ UNCHANGED <<answers, capture, session, pumped, ended, delivered>>

(* A turn passes.                                                          *)
SourceAges ==
  /\ session' = Older(session, HeartbeatTimeout + 1)
  /\ pumped' = Older(pumped, HeartbeatTimeout + 1)
  /\ seen' = Older(seen, Fresh)
  /\ delivered' = Older(delivered, Limit)
  /\ ended' = IF ended = "no" /\ pumped' > HeartbeatTimeout THEN "late" ELSE ended
  /\ UNCHANGED <<answers, capture, running>>
=============================================================================
