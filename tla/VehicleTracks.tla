---------------------------- MODULE VehicleTracks ----------------------------
(***************************************************************************)
(* What one approach remembers of its vehicles: the boxes its ByteTracker  *)
(* returned last (ai/tracking/byte_tracker.py) and the VehicleState of     *)
(* each track id (ai/state/vehicle_state_manager.py), driven by the frames *)
(* process_step gives to them.  A frame that comes when the detector is    *)
(* due is detected, tracked and recorded; the frames in between only show  *)
(* where the tracker projects its boxes to.                                *)
(*                                                                         *)
(* Each camera watches one approach and every detection is bound to it, so *)
(* no track changes its lane.  Which ids the tracker reports, and whether  *)
(* a vehicle has hardly moved, are inputs.  Time is in ticks; a timestamp  *)
(* is kept as the time since it.                                           *)
(***************************************************************************)
EXTENDS SignalScheduler, FiniteSets

CONSTANTS
  Track,          \* track ids of the approach's tracker
  Urgent,         \* the tracks a detector may report as priority vehicles
  Period,         \* 1 / DETECTOR_FPS, in ticks
  Horizon,        \* min(2.0, TRACK_BUFFER_FRAMES / DETECTOR_FPS), in ticks
  Grace,          \* TRACK_REMOVAL_GRACE_SEC, in ticks
  Confirmations,  \* MIN_CONFIRMATION_FRAMES
  QueueFrames,    \* CONSECUTIVE_QUEUE_FRAMES
  SlowCap,        \* bound of the model: the low-motion counter stops here
  StayCap         \* bound of the model: the times in lane and queue stop here

ASSUME TrackAssumption ==
  /\ IsFiniteSet(Track)
  /\ Urgent \subseteq Track
  /\ Period \in Nat \ {0}
  /\ Grace \in Nat /\ Period <= Grace
  /\ Horizon \in Nat
  /\ QueueFrames \in Nat \ {0}
  /\ Confirmations \in 2 .. QueueFrames + 1
  /\ SlowCap \in Nat /\ SlowCap >= QueueFrames
  /\ StayCap \in Nat

VARIABLES
  states,      \* active_states: the VehicleState of each track, or Unknown
  boxes,       \* _last_by_track_id: the tracks of the last detector frame
  shown,       \* the tracks drawn on the last frame of the approach
  counted,     \* historical_tracks_count: every track that was ever confirmed
  sinceFrame   \* time since the last detector frame

trackVars == <<states, boxes, shown, counted, sinceFrame>>

GapCap == Larger(Grace + 1, StayCap)

VehicleState ==
  [frames : 1 .. Confirmations,    \* consecutive_seen_frames, up to the number that confirms
   slow : 0 .. SlowCap,            \* consecutive_low_motion_frames
   queued : BOOLEAN,               \* is_queued
   alive : BOOLEAN,                \* is_alive
   urgent : BOOLEAN,               \* is_priority
   stay : 0 .. StayCap,            \* time_in_lane_sec
   queue : 0 .. StayCap,           \* queue_time_sec
   gap : 0 .. GapCap]              \* time since last_seen_timestamp

Unknown == [frames |-> 0]

Known == {t \in Track : states[t] # Unknown}

TracksOK ==
  /\ states \in [Track -> VehicleState \cup {Unknown}]
  /\ boxes \subseteq Track
  /\ shown \subseteq Track
  /\ counted \subseteq Track
  /\ sinceFrame \in 0 .. GapCap

TracksInit ==
  /\ states = [t \in Track |-> Unknown]
  /\ boxes = {}
  /\ shown = {}
  /\ counted = {}
  /\ sinceFrame = GapCap

-----------------------------------------------------------------------------
(***************************************************************************)
(* update for one track id of the frame.                                   *)
(***************************************************************************)
FirstSight(isUrgent) ==
  [frames |-> 1, slow |-> 0, queued |-> FALSE, alive |-> TRUE, urgent |-> isUrgent,
   stay |-> 0, queue |-> 0, gap |-> 0]

SlowAfter(v, isSlow) ==
  IF isSlow THEN Smaller(v.slow + 1, SlowCap) ELSE Larger(0, v.slow - 1)

(* Mutant of SeenAgain: a track that returns starts a new stay.            *)
SeenAgain_NewStay(v, isSlow) ==
  LET slow == SlowAfter(v, isSlow)
  IN  [v EXCEPT !.frames = Smaller(v.frames + 1, Confirmations),
                !.slow = slow,
                !.queued = slow >= QueueFrames,
                !.alive = TRUE,
                !.stay = IF v.alive THEN Smaller(v.stay + v.gap, StayCap) ELSE 0,
                !.queue = IF slow >= QueueFrames THEN Smaller(v.queue + v.gap, StayCap)
                                                 ELSE v.queue,
                !.gap = 0]

SeenAgain(v, isSlow) ==
  LET slow == SlowAfter(v, isSlow)
  IN  [v EXCEPT !.frames = Smaller(v.frames + 1, Confirmations),
                !.slow = slow,
                !.queued = slow >= QueueFrames,
                !.alive = TRUE,
                !.stay = Smaller(v.stay + v.gap, StayCap),
                !.queue = IF slow >= QueueFrames THEN Smaller(v.queue + v.gap, StayCap)
                                                 ELSE v.queue,
                !.gap = 0]

(* Mutant of NotSeen: a lost track stays alive while it is remembered.     *)
NotSeen_StaysAlive(v) == IF v.gap > Grace THEN Unknown ELSE v

(* _purge_stale_tracks for a track the frame does not hold.                *)
NotSeen(v) == IF v.gap > Grace THEN Unknown ELSE [v EXCEPT !.alive = FALSE]

(***************************************************************************)
(* A frame when the detector is due: seen are the ids ByteTracker.update   *)
(* returns, still those that hardly moved, flagged the priority vehicles.  *)
(***************************************************************************)
DetectorDue == sinceFrame >= Period

Recorded(seen, still, flagged) ==
  [t \in Track |->
     IF t \in seen
     THEN IF t \in Known THEN SeenAgain(states[t], t \in still) ELSE FirstSight(t \in flagged)
     ELSE IF t \in Known THEN NotSeen(states[t]) ELSE Unknown]

DetectorFrame(seen, still, flagged) ==
  /\ DetectorDue
  /\ seen \subseteq Track /\ still \subseteq seen /\ flagged \subseteq seen \cap Urgent
  /\ states' = Recorded(seen, still, flagged)
  /\ boxes' = seen
  /\ shown' = seen
  /\ counted' = counted \cup {t \in seen : states'[t].frames >= Confirmations}
  /\ sinceFrame' = 0

(* Mutant of Projected: every remembered track is drawn.                   *)
Projected_AllKnown == Known

(* ByteTracker.predict: only what the last detector frame held.            *)
Projected == IF sinceFrame > Horizon THEN {} ELSE boxes

(* A frame in between is drawn and recorded nowhere.                       *)
PreviewFrame ==
  /\ ~DetectorDue
  /\ shown' = Projected
  /\ UNCHANGED <<states, boxes, counted, sinceFrame>>

AgedState(v) == IF v = Unknown THEN v ELSE [v EXCEPT !.gap = Smaller(v.gap + 1, GapCap)]

TimePasses ==
  /\ states' = [t \in Track |-> AgedState(states[t])]
  /\ sinceFrame' = Smaller(sinceFrame + 1, GapCap)
  /\ UNCHANGED <<boxes, shown, counted>>

-----------------------------------------------------------------------------
(* get_confirmed_vehicles_by_lane: what statistics are made of.            *)
Confirmed == {t \in Known : states[t].alive /\ states[t].frames >= Confirmations}

(***************************************************************************)
(* A vehicle counts, and a box is drawn, only while the detector's last    *)
(* word on the approach held it: neither a projection nor a remembered     *)
(* track ever becomes demand, and nothing is drawn that is not remembered. *)
(***************************************************************************)
OnlyEvidenceCounts ==
  /\ Confirmed \subseteq boxes
  /\ shown \subseteq boxes
  /\ boxes = {t \in Known : states[t].alive}

(***************************************************************************)
(* A vehicle never queued longer than it has been in the lane, and one     *)
(* that was seen once has not queued at all.                               *)
(***************************************************************************)
QueueWithinStay ==
  \A t \in Known :
    /\ states[t].queue <= states[t].stay
    /\ states[t].frames < Confirmations => ~states[t].queued /\ states[t].queue = 0
=============================================================================
