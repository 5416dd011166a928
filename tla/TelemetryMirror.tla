--------------------------- MODULE TelemetryMirror ---------------------------
(***************************************************************************)
(* What the backend of the two-container deployment says and shows of the  *)
(* camera server: the snapshots of server/runtime.py, their publication    *)
(* with a lifetime (websocket-server redis_broadcaster.py), the loop that  *)
(* mirrors them (app-backend redis_service.py), and the reports and the    *)
(* preview made from the mirror.  The commands are CommandBridge's.        *)
(*                                                                         *)
(* Each loop has one turn in every half second, unless a fault makes it    *)
(* late; a slow call to Redis is such a fault.  Of the payload only the    *)
(* running flag and the approach's stream status and frame age are kept.   *)
(* A snapshot stays in Redis for 5 s, longer than anybody believes it, so  *)
(* that its lifetime makes no difference and is left out.  The age of the  *)
(* picture stands for the picture: snapshot and picture are two keys, so   *)
(* that a new snapshot may come with the picture before, which then has    *)
(* the snapshot's age until the next poll.                                 *)
(***************************************************************************)
EXTENDS LocalSource

CONSTANTS
  FrameTtl,      \* lifetime of traffic:frame:<direction>, 3 s
  MaxFaults      \* bound of the model: so many things go wrong

ASSUME MirrorAssumption ==
  /\ FrameTtl \in Nat /\ MaxFaults \in Nat
  /\ 2 * Fresh + MaxFaults < Limit

VARIABLES
  process,      \* the camera server: "on" or "paused" (stalled, or dead)
  ran,          \* how long ago it was on with system_running
  serverUp,     \* is_connected of its publisher
  outgoing,     \* the snapshots the ticker is publishing: none or one
  listing,      \* whether the frames are still to be published
  snapshot,     \* traffic:latest_snapshot
  key,          \* age of traffic:frame:<direction>, Never without one
  backendUp,    \* is_connected of the backend
  polling,      \* the age its snapshot gave the frame the backend is fetching
  mirrored,     \* systemRunning of ctx.latest_snapshot
  received,     \* age of remote_received_at
  saysRunning,  \* system_running of the backend
  picture,      \* the age its frame has by frame_updated_at, Never without one
  turns,        \* the loops that had their turn
  faults        \* how often something has gone wrong

serverVars == <<process, ran, serverUp, outgoing, listing>>
redisVars == <<snapshot, key>>
backendVars == <<backendUp, polling, mirrored, received, saysRunning, picture>>
vars == <<sourceVars, serverVars, redisVars, backendVars, turns, faults>>

Loop == {"source", "publish", "poll"}

(* What may be absent is a set of at most one record.                      *)
AtMostOne(S) == {{}} \cup {{x} : x \in S}

Snapshot == [running : BOOLEAN, frame : Age, made : Age]

TypeOK ==
  /\ SourceTypeOK
  /\ process \in {"on", "paused"} /\ ran \in Age
  /\ serverUp \in BOOLEAN /\ listing \in BOOLEAN
  /\ outgoing \in AtMostOne(Snapshot) /\ snapshot \in AtMostOne(Snapshot)
  /\ key \in Age
  /\ backendUp \in BOOLEAN /\ polling \in AtMostOne(Age)
  /\ mirrored \in BOOLEAN /\ received \in Age /\ saysRunning \in BOOLEAN
  /\ picture \in Age
  /\ turns \subseteq Loop /\ faults \in 0 .. MaxFaults

(* Both containers have started; ApplicationContext begins as running.     *)
Init ==
  /\ SourceInit
  /\ process = "on" /\ ran = IF running THEN 0 ELSE Never
  /\ serverUp = FALSE /\ outgoing = {} /\ listing = FALSE
  /\ snapshot = {} /\ key = Never
  /\ backendUp = FALSE /\ polling = {}
  /\ mirrored = FALSE /\ received = Never /\ saysRunning = TRUE /\ picture = Never
  /\ turns = {} /\ faults = 0

Turn(loop) ==
  /\ loop \notin turns
  /\ turns' = turns \cup {loop}

Fault == faults < MaxFaults /\ faults' = faults + 1

-----------------------------------------------------------------------------
(***************************************************************************)
(* The camera server.                                                      *)
(***************************************************************************)
Quiet == UNCHANGED <<redisVars, backendVars>>

SourceTurn ==
  /\ process = "on" /\ Turn("source")
  /\ SourceRuns
  /\ Quiet /\ UNCHANGED <<serverVars, faults>>

(* runtime_snapshot, with the age of the frame if the approach is LIVE     *)
MadeSnapshot ==
  [running |-> running, frame |-> IF running /\ Valid /\ seen < Fresh THEN seen ELSE Never,
   made |-> 0]

(* run_runtime_iteration; publish_telemetry returns when not connected.    *)
TickerTurn ==
  /\ process = "on" /\ outgoing = {} /\ ~listing
  /\ Turn("publish")
  /\ session' = Swept
  /\ outgoing' = IF serverUp THEN {MadeSnapshot} ELSE {}
  /\ Quiet
  /\ UNCHANGED <<answers, capture, pumped, ended, running, seen, delivered,
                 process, ran, serverUp, listing, faults>>

SetSnapshot ==
  /\ process = "on" /\ outgoing # {}
  /\ snapshot' = outgoing
  /\ outgoing' = {} /\ listing' = TRUE
  /\ UNCHANGED <<sourceVars, process, ran, serverUp, key, backendVars, turns, faults>>

(* Every frame in the buffer, stale ones too; a missing one is not deleted *)
SetFrame ==
  /\ process = "on" /\ listing
  /\ key' = IF seen = Never THEN key ELSE 0
  /\ listing' = FALSE
  /\ UNCHANGED <<sourceVars, process, ran, serverUp, outgoing, snapshot, backendVars, turns, faults>>

(* A call to Redis raises, and the publication ends.                       *)
PublishFails ==
  /\ process = "on"
  /\ outgoing # {} \/ listing
  /\ Fault
  /\ serverUp' = FALSE /\ outgoing' = {} /\ listing' = FALSE
  /\ Quiet /\ UNCHANGED <<sourceVars, process, ran, turns>>

(* The listener connects again for the publisher.                          *)
ServerConnects ==
  /\ process = "on" /\ ~serverUp
  /\ serverUp' = TRUE
  /\ Quiet /\ UNCHANGED <<sourceVars, process, ran, outgoing, listing, turns, faults>>

(* Restarts count as faults: an operator who goes on with them sees nothing *)
Commanded ==
  /\ process = "on"
  /\ \/ (Operate \/ Disconnect) /\ UNCHANGED faults
     \/ Restarted /\ Fault
  /\ ran' = IF running' THEN 0 ELSE ran
  /\ Quiet /\ UNCHANGED <<process, serverUp, outgoing, listing, turns>>

(* The event loop stalls, or the process dies.                             *)
Pauses ==
  /\ process = "on" /\ Fault
  /\ process' = "paused"
  /\ Quiet /\ UNCHANGED <<sourceVars, ran, serverUp, outgoing, listing, turns>>

Resumes ==
  /\ process = "paused"
  /\ process' = "on"
  /\ ran' = IF running THEN 0 ELSE ran
  /\ Quiet /\ UNCHANGED <<sourceVars, serverUp, outgoing, listing, turns, faults>>

(* The container is started anew.                                          *)
ServerRestarts ==
  /\ process = "paused"
  /\ process' = "on"
  /\ capture' = "new"
  /\ session' = 0 /\ pumped' = 0 /\ ended' = "no" /\ seen' = Never
  /\ running' \in BOOLEAN
  /\ ran' = IF running' THEN 0 ELSE ran
  /\ serverUp' = FALSE /\ outgoing' = {} /\ listing' = FALSE
  /\ Quiet /\ UNCHANGED <<answers, delivered, turns, faults>>

-----------------------------------------------------------------------------
(***************************************************************************)
(* The backend: start_listener.                                            *)
(***************************************************************************)
BackendConnects ==
  /\ ~backendUp
  /\ backendUp' = TRUE
  /\ UNCHANGED <<sourceVars, serverVars, redisVars, polling, mirrored, received, saysRunning, picture, turns, faults>>

Forget == saysRunning' = FALSE /\ picture' = Never

Believed == {s \in snapshot : s.made < Fresh}

(* Mutant of PollSnapshot: without a fresh snapshot all stays as it is.    *)
PollSnapshot_Keeps ==
  /\ backendUp /\ polling = {} /\ "poll" \notin turns
  /\ IF Believed # {}
     THEN /\ polling' = {s.frame : s \in Believed}
          /\ \A s \in Believed : saysRunning' = s.running /\ mirrored' = s.running
          /\ received' = 0
          /\ UNCHANGED <<picture, turns>>
     ELSE Turn("poll") /\ UNCHANGED <<polling, mirrored, received, saysRunning, picture>>
  /\ UNCHANGED <<sourceVars, serverVars, redisVars, backendUp, faults>>

PollSnapshot ==
  /\ backendUp /\ polling = {} /\ "poll" \notin turns
  /\ IF Believed # {}
     THEN /\ polling' = {s.frame : s \in Believed}
          /\ \A s \in Believed : saysRunning' = s.running /\ mirrored' = s.running
          /\ received' = 0
          /\ UNCHANGED <<picture, turns>>
     ELSE Turn("poll") /\ Forget /\ UNCHANGED <<polling, mirrored, received>>
  /\ UNCHANGED <<sourceVars, serverVars, redisVars, backendUp, faults>>

(* The clock of the picture is set back by the age the snapshot gave it.   *)
PollFrame ==
  /\ Turn("poll")
  /\ \E frame \in polling : picture' = IF key = Never THEN Never ELSE frame
  /\ polling' = {}
  /\ UNCHANGED <<sourceVars, serverVars, redisVars, backendUp, mirrored, received, saysRunning, faults>>

(* A call raises, and all is forgotten; but connect swallows its failure.  *)
BackendFails ==
  /\ Fault
  /\ "poll" \notin turns /\ turns' = turns \cup {"poll"}
  /\ backendUp' = FALSE /\ polling' = {}
  /\ IF backendUp THEN Forget ELSE UNCHANGED <<saysRunning, picture>>
  /\ UNCHANGED <<sourceVars, serverVars, redisVars, mirrored, received>>

(* Redis is started anew, without a volume.                                *)
RedisForgets ==
  /\ Fault
  /\ snapshot' = {} /\ key' = Never
  /\ UNCHANGED <<sourceVars, serverVars, backendVars, turns>>

-----------------------------------------------------------------------------
Aged(S) == {[s EXCEPT !.made = Older(@, Fresh)] : s \in S}

TimePasses ==
  /\ SourceAges
  /\ ran' = IF process = "on" /\ running THEN 0 ELSE Older(ran, Limit)
  /\ outgoing' = Aged(outgoing)
  /\ snapshot' = Aged(snapshot)
  /\ key' = IF key + 1 < FrameTtl THEN key + 1 ELSE Never
  /\ received' = Older(received, Fresh)
  /\ picture' = Older(picture, Fresh + 1)
  /\ turns' = {}
  /\ UNCHANGED <<process, serverUp, listing, backendUp, polling, mirrored, saysRunning>>

Tick ==
  /\ turns = IF process = "on" THEN Loop ELSE turns \cup {"poll"}
  /\ process = "on" => outgoing = {} /\ ~listing
  /\ TimePasses
  /\ UNCHANGED faults

(* A loop is late.                                                         *)
SlowTick == Fault /\ TimePasses

(* Seen only in the source's turn, so it may as well happen before it.     *)
CameraMoves ==
  /\ "source" \notin turns
  /\ CameraChanges
  /\ Quiet /\ UNCHANGED <<serverVars, turns, faults>>

ServerStep == SourceTurn \/ TickerTurn \/ SetSnapshot \/ SetFrame
BackendStep == BackendConnects \/ PollSnapshot \/ PollFrame

Next ==
  \/ ServerStep \/ BackendStep \/ ServerConnects \/ Tick
  \/ Commanded \/ CameraMoves
  \/ Pauses \/ Resumes \/ ServerRestarts
  \/ PublishFails \/ BackendFails \/ RedisForgets \/ SlowTick

Spec == Init /\ [][Next]_vars

(* The loops go on, and the listener connects again; a pause may last.     *)
FairSpec == Spec /\ WF_vars(ServerStep \/ BackendStep \/ Tick) /\ WF_vars(ServerConnects)

-----------------------------------------------------------------------------
(***************************************************************************)
(* Nothing but start creates the session of a local source: however long   *)
(* its camera is away and the system stopped, it must hold, and is lost    *)
(* only to the operator or to a pause longer than the heartbeat timeout.   *)
(***************************************************************************)
SourceOutlivesCamera == ended = "no" => Valid

(* get_health_dict of the backend                                          *)
HealthRunning == received < Fresh /\ mirrored

(* generate_mjpeg_stream still shows the picture.                          *)
Shown == saysRunning /\ picture <= Fresh

(***************************************************************************)
(* redis_service.py: "TTL prevents stale success"; camera_service.py: "End *)
(* stale feeds".  A dead or stalled server, slow or lost connections and   *)
(* late answers included, the backend says that the system runs no longer  *)
(* than Fresh after it did, its health report and its preview no longer    *)
(* than twice Fresh, and a turn for every loop that was late.  Until its   *)
(* first poll the backend knows nothing, and says that the system runs.    *)
(***************************************************************************)
MirrorIsRecent ==
  /\ saysRunning /\ received # Never => ran <= Fresh + MaxFaults
  /\ HealthRunning => ran <= 2 * Fresh + MaxFaults
  /\ Shown => delivered <= 2 * Fresh + MaxFaults

Delivers == answers /\ running /\ process = "on" /\ ended = "no"

(***************************************************************************)
(* From the device to the preview: a camera that can be read, also after   *)
(* it was away, is shown while the system runs, whatever was lost before.  *)
(***************************************************************************)
CameraIsShown == Delivers ~> (Shown \/ ~Delivers)
=============================================================================
