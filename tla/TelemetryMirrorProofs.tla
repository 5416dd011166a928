------------------------ MODULE TelemetryMirrorProofs ------------------------
(***************************************************************************)
(* What the backend may be believed, for every lifetime and any number of  *)
(* faults, and how long the session of a local camera lasts.               *)
(***************************************************************************)
EXTENDS TelemetryMirror, TLAPS

LEMMA OlderByOne ==
  ASSUME NEW age \in Nat, NEW cap \in Nat
  PROVE  /\ Older(age, cap) \in Nat
         /\ age <= Older(age, cap) /\ Older(age, cap) <= age + 1
         /\ age < cap => Older(age, cap) = age + 1
         /\ age >= cap => Older(age, cap) = age
BY DEF Older

-----------------------------------------------------------------------------
(* Two clocks that advance together keep their distance.                   *)
LEMMA AgeTogether ==
  ASSUME NEW a \in Nat, NEW b \in Nat, NEW limit \in Nat, NEW slack \in Nat,
         a < b + limit + slack
  PROVE  a + 1 < b + 1 + limit + slack
OBVIOUS

LEMMA Loosened ==
  ASSUME NEW a \in Nat, NEW aNext \in Nat, aNext <= a + 1, NEW b \in Nat, NEW limit \in Nat,
         NEW slack \in Nat, NEW slackNext \in Nat, slackNext >= slack,
         a + 1 < b + limit + slack
  PROVE  aNext < b + limit + slackNext
OBVIOUS

(***************************************************************************)
(* The session of the source.                                              *)
(***************************************************************************)

(* Until something ends it, the session is as young as the pump's turn.    *)
SourceInv ==
  /\ session \in Nat /\ pumped \in Nat
  /\ ended = "no" => session <= pumped /\ pumped <= HeartbeatTimeout

LEMMA SourceInvPreserved ==
  ASSUME SourceInv, [Next]_vars
  PROVE  SourceInv'
<1> USE SourceAssumption
<1>1. CASE UNCHANGED <<session, pumped, ended>>
  BY <1>1 DEF SourceInv
<1>2. CASE SourceTurn
  <2>1. pumped' = 0 /\ ended' = ended /\ session' = IF Valid THEN 0 ELSE session
    BY <1>2 DEF SourceTurn, SourceRuns, Pump
  <2> QED BY <2>1 DEF Valid, SourceInv
<1>3. CASE TickerTurn
  BY <1>3 DEF TickerTurn, Swept, Valid, SourceInv, Never
<1>4. CASE Disconnect
  BY <1>4 DEF Disconnect, Valid, SourceInv, Never
<1>5. CASE ServerRestarts
  BY <1>5 DEF ServerRestarts, SourceInv
<1>6. CASE TimePasses
  <2>1. SourceAges
    BY <1>6 DEF TimePasses
  <2>2. HeartbeatTimeout + 1 \in Nat
    OBVIOUS
  <2>3. session' \in Nat /\ pumped' \in Nat
    BY <2>1, <2>2, OlderByOne DEF SourceAges, SourceInv
  <2>4. ASSUME ended' = "no"
        PROVE  session' <= pumped' /\ pumped' <= HeartbeatTimeout
    <3>1. ended = "no" /\ pumped' <= HeartbeatTimeout
      BY <2>1, <2>2, <2>3, <2>4 DEF SourceAges
    <3>2. session <= pumped /\ pumped <= HeartbeatTimeout
      BY <3>1 DEF SourceInv
    <3>3. session' = session + 1 /\ pumped' = pumped + 1
      BY <2>1, <3>2 DEF SourceAges, SourceInv, Older
    <3> QED BY <3>1, <3>2, <3>3 DEF SourceInv
  <2> QED BY <2>3, <2>4 DEF SourceInv
<1> QED
  BY <1>1, <1>2, <1>3, <1>4, <1>5, <1>6
     DEF Next, ServerStep, SetSnapshot, SetFrame, BackendStep, BackendConnects, PollSnapshot,
         PollFrame, ServerConnects, Tick, SlowTick, Commanded, Operate, Restarted, CameraMoves,
         CameraChanges, Pauses, Resumes, PublishFails, BackendFails, RedisForgets, vars, sourceVars

(***************************************************************************)
(* SourceOutlivesCamera, for any heartbeat timeout: the session that start *)
(* created once is never lost to the absence of its camera or to a system  *)
(* that stands.                                                            *)
(***************************************************************************)
THEOREM SourceAlwaysOutlives == Spec => []SourceOutlivesCamera
<1>1. Init => SourceInv
  BY SourceAssumption DEF Init, SourceInit, SourceInv
<1>2. SourceInv => SourceOutlivesCamera
  BY SourceAssumption DEF SourceInv, SourceOutlivesCamera, Valid
<1> QED BY <1>1, <1>2, SourceInvPreserved, PTL DEF Spec

-----------------------------------------------------------------------------
(***************************************************************************)
(* The mirror.                                                             *)
(***************************************************************************)
Types ==
  /\ process \in {"on", "paused"} /\ running \in BOOLEAN
  /\ seen \in Nat /\ delivered \in Nat /\ ran \in Nat
  /\ outgoing \subseteq Snapshot /\ snapshot \subseteq Snapshot
  /\ backendUp \in BOOLEAN /\ polling \subseteq Age
  /\ mirrored \in BOOLEAN /\ received \in Nat /\ saysRunning \in BOOLEAN
  /\ picture \in Nat
  /\ faults \in 0 .. MaxFaults

(* The two things a snapshot says were so when it was made.                *)
TrueWhenMade(s) ==
  /\ s.frame < Fresh \/ s.frame = Never
  /\ s.made < Fresh =>
       /\ s.running => ran <= s.made
       /\ s.frame < Fresh => delivered <= s.frame + s.made

ServerInv ==
  /\ process = "on" /\ running => ran = 0
  /\ seen < Fresh => delivered <= seen
  /\ \A s \in outgoing \cup snapshot : TrueWhenMade(s)

(* How old what the backend says of the server can be: a turn more, while  *)
(* it has not polled in this one.                                          *)
Asked == "poll" \in turns \/ polling # {}

BackendInv ==
  /\ polling # {} => "poll" \notin turns
  /\ \A f \in polling :
       /\ f < Fresh \/ f = Never
       /\ f < Fresh => delivered < f + Fresh + faults
  /\ picture <= Fresh => delivered < picture + Fresh + faults
  /\ mirrored /\ received < Fresh => ran < Fresh + received
  /\ saysRunning /\ received # Never =>
       /\ backendUp
       /\ ran <= Fresh + faults
       /\ Asked => ran < Fresh + faults

MirrorInv == Types /\ ServerInv /\ BackendInv

-----------------------------------------------------------------------------
(* A turn of the server can only renew its two clocks, which takes nothing *)
(* from what was said of it before.                                        *)
Renewed ==
  /\ ran' = ran \/ ran' = 0
  /\ delivered' = delivered \/ delivered' = 0
  /\ faults' >= faults /\ faults' <= MaxFaults /\ faults' \in Nat

LEMMA SnapshotStaysTrue ==
  ASSUME Types, Renewed, NEW s \in Snapshot, TrueWhenMade(s)
  PROVE  TrueWhenMade(s)'
BY SourceAssumption DEF Types, Renewed, TrueWhenMade, Snapshot, Age, Never

LEMMA BackendStaysTrue ==
  ASSUME Types, BackendInv, Renewed, UNCHANGED backendVars,
         "poll" \in turns' <=> "poll" \in turns
  PROVE  BackendInv'
<1> USE SourceAssumption
<1>1. polling' = polling /\ picture' = picture /\ mirrored' = mirrored /\ received' = received
      /\ saysRunning' = saysRunning /\ backendUp' = backendUp
  BY DEF backendVars
<1>2. Asked' <=> Asked
  BY <1>1 DEF Asked
<1>3. ASSUME NEW f \in polling
      PROVE  /\ f < Fresh \/ f = Never
             /\ f < Fresh => delivered' < f + Fresh + faults'
  BY <1>3 DEF BackendInv, Types, Renewed, Age, Never
<1>4. picture <= Fresh => delivered' < picture + Fresh + faults'
  BY DEF BackendInv, Types, Renewed
<1>5. mirrored /\ received < Fresh => ran' < Fresh + received
  BY DEF BackendInv, Types, Renewed
<1>6. saysRunning /\ received # Never =>
        backendUp /\ ran' <= Fresh + faults' /\ (Asked => ran' < Fresh + faults')
  BY DEF BackendInv, Types, Renewed
<1> QED BY <1>1, <1>2, <1>3, <1>4, <1>5, <1>6 DEF BackendInv

(* Steps of the server leave the invariant alone if they only renew its    *)
(* clocks and send nothing new.                                            *)
LEMMA ServerTurnKeeps ==
  ASSUME MirrorInv, Renewed, UNCHANGED backendVars,
         "poll" \in turns' <=> "poll" \in turns,
         outgoing' \cup snapshot' \subseteq outgoing \cup snapshot,
         process' \in {"on", "paused"}, running' \in BOOLEAN, seen' \in Nat,
         process' = "on" /\ running' => ran' = 0,
         seen' < Fresh => delivered' <= seen'
  PROVE  MirrorInv'
<1>1. Types'
  BY DEF MirrorInv, Types, Renewed, backendVars
<1>2. ASSUME NEW s \in outgoing' \cup snapshot' PROVE TrueWhenMade(s)'
  <2>1. s \in Snapshot /\ TrueWhenMade(s)
    BY DEF MirrorInv, Types, ServerInv
  <2> QED BY <2>1, SnapshotStaysTrue DEF MirrorInv
<1>3. BackendInv'
  BY BackendStaysTrue DEF MirrorInv
<1> QED BY <1>1, <1>2, <1>3 DEF MirrorInv, ServerInv

(* The server's own turns, its operator, and the faults that meet it.      *)
LEMMA ServerKeeps ==
  ASSUME MirrorInv,
         SourceTurn \/ SetSnapshot \/ SetFrame \/ PublishFails \/ ServerConnects
  PROVE  MirrorInv'
<1> USE SourceAssumption, MirrorAssumption
<1>1. /\ UNCHANGED <<process, ran, running, backendVars>>
      /\ "poll" \in turns' <=> "poll" \in turns
      /\ outgoing' \cup snapshot' \subseteq outgoing \cup snapshot
      /\ faults' = faults \/ (faults < MaxFaults /\ faults' = faults + 1)
  BY DEF SourceTurn, SourceRuns, SetSnapshot, SetFrame, PublishFails, ServerConnects,
         Turn, Fault, Quiet, redisVars, serverVars, sourceVars
<1>2. UNCHANGED <<seen, delivered>> \/ (seen' = 0 /\ delivered' = 0)
  BY DEF SourceTurn, SourceRuns, Pump, Published, SetSnapshot, SetFrame, PublishFails,
         ServerConnects, Quiet, sourceVars
<1>3. Renewed
  BY <1>1, <1>2 DEF Renewed, MirrorInv, Types
<1>4. seen' \in Nat /\ (seen' < Fresh => delivered' <= seen')
  BY <1>2 DEF MirrorInv, Types, ServerInv
<1>5. process' \in {"on", "paused"} /\ running' \in BOOLEAN
      /\ (process' = "on" /\ running' => ran' = 0)
  BY <1>1 DEF MirrorInv, Types, ServerInv
<1> QED BY <1>1, <1>3, <1>4, <1>5, ServerTurnKeeps

LEMMA OperatorKeeps ==
  ASSUME MirrorInv,
         Commanded \/ Pauses \/ Resumes \/ ServerRestarts \/ RedisForgets \/ CameraMoves
  PROVE  MirrorInv'
<1> USE SourceAssumption, MirrorAssumption
<1>1. /\ UNCHANGED <<delivered, turns, backendVars>>
      /\ outgoing' \cup snapshot' \subseteq outgoing \cup snapshot
      /\ faults' = faults \/ (faults < MaxFaults /\ faults' = faults + 1)
  BY DEF Commanded, Operate, Disconnect, Restarted, Pauses, Resumes, ServerRestarts,
         RedisForgets, CameraMoves, CameraChanges, Fault, Quiet, redisVars, serverVars, sourceVars
<1>2. seen' = seen \/ seen' = Never
  BY DEF Commanded, Operate, Start, Stop, FailClosed, Disconnect, Restarted, Pauses, Resumes,
         ServerRestarts, RedisForgets, CameraMoves, CameraChanges, sourceVars
<1>3. process' \in {"on", "paused"} /\ running' \in BOOLEAN
  BY DEF Commanded, Operate, Start, Stop, FailClosed, Disconnect, Restarted, Pauses, Resumes,
         ServerRestarts, RedisForgets, CameraMoves, CameraChanges, sourceVars, serverVars,
         MirrorInv, Types
<1>4. (ran' = ran \/ ran' = 0) /\ (process' = "on" /\ running' => ran' = 0)
  BY DEF Commanded, Pauses, Resumes, ServerRestarts, RedisForgets, CameraMoves, CameraChanges,
         sourceVars, serverVars, MirrorInv, ServerInv
<1>5. seen' \in Nat /\ (seen' < Fresh => delivered' <= seen')
  BY <1>1, <1>2 DEF MirrorInv, Types, ServerInv, Never
<1>6. Renewed
  BY <1>1, <1>4 DEF Renewed, MirrorInv, Types
<1> QED BY <1>1, <1>3, <1>4, <1>5, <1>6, ServerTurnKeeps

(* A new snapshot is true.                                                 *)
LEMMA TickerKeeps ==
  ASSUME MirrorInv, TickerTurn
  PROVE  MirrorInv'
<1> USE SourceAssumption, MirrorAssumption
<1>1. /\ UNCHANGED <<process, ran, running, seen, delivered, faults, snapshot, backendVars>>
      /\ "poll" \in turns' <=> "poll" \in turns
      /\ outgoing' = {MadeSnapshot} \/ outgoing' = {}
      /\ process = "on"
  BY DEF TickerTurn, Turn, Quiet, redisVars
<1>2. Renewed
  BY <1>1 DEF Renewed, MirrorInv, Types
<1>3. MadeSnapshot \in Snapshot
  <2>1. (IF running /\ Valid /\ seen < Fresh THEN seen ELSE Never) \in Age
    BY DEF MirrorInv, Types, Age, Never
  <2> QED BY <2>1 DEF MadeSnapshot, Snapshot, MirrorInv, Types, Age, Never
<1>4. TrueWhenMade(MadeSnapshot)
  <2>1. MadeSnapshot.made = 0 /\ (MadeSnapshot.running => ran = 0)
    BY <1>1 DEF MadeSnapshot, MirrorInv, ServerInv
  <2>2. \/ MadeSnapshot.frame = Never
        \/ MadeSnapshot.frame = seen /\ seen < Fresh /\ delivered <= seen
    BY DEF MadeSnapshot, MirrorInv, ServerInv
  <2>3. Never >= Fresh /\ seen \in Nat /\ delivered \in Nat /\ Never \in Nat
    BY DEF Never, MirrorInv, Types
  <2> QED BY <2>1, <2>2, <2>3 DEF TrueWhenMade
<1>5. Types'
  BY <1>1, <1>3 DEF MirrorInv, Types, backendVars
<1>6. ASSUME NEW s \in outgoing' \cup snapshot' PROVE TrueWhenMade(s)'
  <2>1. s \in Snapshot /\ TrueWhenMade(s)
    BY <1>1, <1>3, <1>4 DEF MirrorInv, Types, ServerInv
  <2> QED BY <1>2, <2>1, SnapshotStaysTrue DEF MirrorInv
<1>7. BackendInv'
  BY <1>1, <1>2, BackendStaysTrue DEF MirrorInv
<1> QED BY <1>1, <1>5, <1>6, <1>7 DEF MirrorInv, ServerInv

(* What the backend believes is young.                                     *)
LEMMA BackendKeeps ==
  ASSUME MirrorInv, BackendStep \/ BackendFails
  PROVE  MirrorInv'
<1> USE SourceAssumption, MirrorAssumption
<1>1. UNCHANGED <<process, ran, running, seen, delivered, outgoing, snapshot>>
  BY DEF BackendStep, BackendConnects, PollSnapshot, PollFrame, BackendFails,
         serverVars, sourceVars, redisVars
<1>2. ServerInv'
  BY <1>1 DEF MirrorInv, ServerInv, TrueWhenMade
<1>3. Never \in Nat /\ Never > Fresh
  BY DEF Never
<1>4. CASE BackendConnects
  BY <1>1, <1>2, <1>4 DEF BackendConnects, MirrorInv, Types, BackendInv, Asked
<1>5. CASE PollSnapshot /\ Believed = {}
  <2>1. /\ saysRunning' = FALSE /\ picture' = Never
        /\ polling = {} /\ UNCHANGED <<polling, mirrored, received, backendUp, faults>>
    BY <1>5 DEF PollSnapshot, Forget
  <2>2. Types'
    BY <1>1, <1>3, <2>1 DEF MirrorInv, Types
  <2>3. BackendInv'
    <3>1. polling' = {} /\ ~(picture' <= Fresh)
      BY <1>3, <2>1
    <3>2. mirrored' /\ received' < Fresh => ran' < Fresh + received'
      BY <1>1, <2>1 DEF MirrorInv, BackendInv
    <3> QED BY <2>1, <3>1, <3>2 DEF BackendInv
  <2> QED BY <1>2, <2>2, <2>3 DEF MirrorInv
<1>6. CASE PollSnapshot /\ Believed # {}
  <2>1. PICK s \in Believed : TRUE
    BY <1>6
  <2>2. s \in Snapshot /\ s.made < Fresh /\ TrueWhenMade(s)
    BY DEF Believed, MirrorInv, Types, ServerInv
  <2>3. /\ polling' = {b.frame : b \in Believed}
        /\ saysRunning' = s.running /\ mirrored' = s.running
        /\ received' = 0 /\ backendUp /\ "poll" \notin turns
        /\ UNCHANGED <<picture, turns, backendUp, faults>>
    BY <1>6 DEF PollSnapshot
  <2>4. ASSUME NEW f \in polling'
        PROVE  /\ f \in Age
               /\ f < Fresh \/ f = Never
               /\ f < Fresh => delivered < f + Fresh + faults
    <3>1. PICK b \in Believed : f = b.frame
      BY <2>3
    <3>2. b \in Snapshot /\ b.made < Fresh /\ TrueWhenMade(b)
      BY DEF Believed, MirrorInv, Types, ServerInv
    <3>3. f \in Age /\ b.made \in Nat /\ f \in Nat /\ faults \in Nat /\ delivered \in Nat
      BY <3>1, <3>2 DEF Snapshot, Age, Never, MirrorInv, Types
    <3> QED BY <3>1, <3>2, <3>3 DEF TrueWhenMade
  <2>5. s.running => ran < Fresh
    BY <2>2 DEF TrueWhenMade, Snapshot, Age, Never, MirrorInv, Types
  <2>6. s.running \in BOOLEAN
    BY <2>2 DEF Snapshot
  <2>7. Types'
    BY <1>1, <2>3, <2>4, <2>6 DEF MirrorInv, Types
  <2>8. BackendInv'
    BY <1>1, <2>3, <2>4, <2>5 DEF MirrorInv, Types, BackendInv
  <2> QED BY <1>2, <2>7, <2>8 DEF MirrorInv
<1>7. CASE PollFrame
  <2>1. PICK f \in polling : picture' = IF key = Never THEN Never ELSE f
    BY <1>7 DEF PollFrame
  <2>2. polling' = {} /\ UNCHANGED <<backendUp, mirrored, received, saysRunning, faults>>
        /\ Asked
    BY <1>7, <2>1 DEF PollFrame, Asked
  <2>3. picture' \in Nat /\ (picture' <= Fresh => delivered < picture' + Fresh + faults)
    BY <1>3, <2>1 DEF MirrorInv, Types, BackendInv, Age
  <2>4. Types'
    BY <1>1, <2>2, <2>3 DEF MirrorInv, Types
  <2>5. BackendInv'
    BY <1>1, <2>2, <2>3 DEF MirrorInv, BackendInv
  <2> QED BY <1>2, <2>4, <2>5 DEF MirrorInv
<1>8. CASE BackendFails
  <2>1. /\ faults < MaxFaults /\ faults' = faults + 1
        /\ polling' = {} /\ backendUp' = FALSE /\ UNCHANGED <<mirrored, received>>
        /\ \/ saysRunning' = FALSE /\ picture' = Never
           \/ ~backendUp /\ UNCHANGED <<saysRunning, picture>>
    BY <1>8 DEF BackendFails, Fault, Forget
  <2>2. faults' \in 0 .. MaxFaults
    BY <2>1 DEF MirrorInv, Types
  <2>3. saysRunning' \in BOOLEAN /\ picture' \in Nat
    BY <1>3, <2>1 DEF MirrorInv, Types
  <2>4. Types'
    BY <1>1, <2>1, <2>2, <2>3 DEF MirrorInv, Types
  <2>5. BackendInv'
    <3>1. polling' = {}
      BY <2>1
    <3>2. picture' <= Fresh => delivered' < picture' + Fresh + faults'
      <4>1. CASE picture' = Never
        BY <1>3, <4>1
      <4>2. CASE picture' = picture
        BY <1>1, <2>1, <4>2 DEF MirrorInv, Types, BackendInv
      <4> QED BY <2>1, <4>1, <4>2
    <3>3. mirrored' /\ received' < Fresh => ran' < Fresh + received'
      BY <1>1, <2>1 DEF MirrorInv, BackendInv
    <3>4. ~(saysRunning' /\ received' # Never)
      BY <2>1 DEF MirrorInv, BackendInv
    <3> QED BY <3>1, <3>2, <3>3, <3>4 DEF BackendInv
  <2> QED BY <1>2, <2>4, <2>5 DEF MirrorInv
<1> QED BY <1>4, <1>5, <1>6, <1>7, <1>8 DEF BackendStep

(* A turn passes: everything ages together.                                *)
LEMMA TimeKeeps ==
  ASSUME MirrorInv, Tick \/ SlowTick
  PROVE  MirrorInv'
<1> USE SourceAssumption, MirrorAssumption
<1>1. TimePasses
  BY DEF Tick, SlowTick
<1>2. /\ UNCHANGED <<process, running, backendUp, polling, mirrored, saysRunning>>
      /\ turns' = {}
  BY <1>1 DEF TimePasses, SourceAges
<1>3. /\ seen' = Older(seen, Fresh) /\ delivered' = Older(delivered, Limit)
      /\ received' = Older(received, Fresh) /\ picture' = Older(picture, Fresh + 1)
      /\ ran' = IF process = "on" /\ running THEN 0 ELSE Older(ran, Limit)
      /\ outgoing' = Aged(outgoing) /\ snapshot' = Aged(snapshot)
  BY <1>1 DEF TimePasses, SourceAges
<1>4. /\ faults' \in 0 .. MaxFaults
      /\ \/ faults' = faults /\ (Tick => "poll" \in turns)
         \/ faults' = faults + 1
      /\ faults' = faults => "poll" \in turns
  BY DEF Tick, SlowTick, Fault, MirrorInv, Types, Loop
<1>5. ran' \in Nat /\ ran' <= ran + 1 /\ delivered' \in Nat /\ delivered' <= delivered + 1
  <2>1. ran \in Nat /\ delivered \in Nat /\ Limit \in Nat
    BY DEF MirrorInv, Types
  <2>2. delivered' \in Nat /\ delivered' <= delivered + 1
    BY <1>3, <2>1, OlderByOne
  <2>3. Older(ran, Limit) \in Nat /\ Older(ran, Limit) <= ran + 1
    BY <2>1, OlderByOne
  <2> QED BY <1>3, <2>1, <2>2, <2>3
<1>6. /\ seen' \in Nat /\ received' \in Nat /\ picture' \in Nat
      /\ seen' < Fresh => seen < Fresh /\ seen' = seen + 1
      /\ received' < Fresh => received < Fresh /\ received' = received + 1
      /\ received' # Never => received # Never
      /\ picture' <= Fresh => picture <= Fresh /\ picture' = picture + 1
  BY <1>3 DEF MirrorInv, Types, Older, Never
<1>7. ASSUME NEW S, S \subseteq Snapshot, \A s \in S : TrueWhenMade(s),
             NEW t \in Aged(S)
      PROVE  t \in Snapshot /\ TrueWhenMade(t)'
  <2>1. PICK s \in S : t = [s EXCEPT !.made = Older(@, Fresh)]
    BY DEF Aged
  <2>2. s \in Snapshot /\ TrueWhenMade(s) /\ s.made \in Nat /\ s.frame \in Nat /\ s.made <= Never
    BY <1>7 DEF Snapshot, Age, Never
  <2>3. t.running = s.running /\ t.frame = s.frame /\ t.made = Older(s.made, Fresh)
    BY <2>1, <2>2 DEF Snapshot
  <2>4. t.made \in Age
    BY <2>2, <2>3 DEF Older, Age, Never
  <2>5. t \in Snapshot
    BY <2>1, <2>2, <2>3, <2>4 DEF Snapshot
  <2>6. t.made < Fresh => s.made < Fresh /\ t.made = s.made + 1
    BY <2>2, <2>3 DEF Older
  <2> QED BY <1>5, <2>2, <2>3, <2>5, <2>6 DEF TrueWhenMade, MirrorInv, Types
<1>8. Types'
  BY <1>2, <1>3, <1>4, <1>5, <1>6, <1>7 DEF MirrorInv, Types, ServerInv
<1>9. ServerInv'
  <2>1. process' = "on" /\ running' => ran' = 0
    BY <1>2, <1>3
  <2>2. seen' < Fresh => delivered' <= seen'
    BY <1>5, <1>6 DEF MirrorInv, Types, ServerInv
  <2>3. \A s \in outgoing' \cup snapshot' : TrueWhenMade(s)'
    BY <1>3, <1>7 DEF MirrorInv, Types, ServerInv
  <2> QED BY <2>1, <2>2, <2>3 DEF ServerInv
<1>10. BackendInv'
  <2>1. polling # {} => faults' = faults + 1
    BY <1>4 DEF MirrorInv, BackendInv
  <2>2. ASSUME NEW f \in polling
        PROVE  /\ f < Fresh \/ f = Never
               /\ f < Fresh => delivered' < f + Fresh + faults'
    BY <1>5, <2>1, <2>2 DEF MirrorInv, Types, BackendInv, Age, Never
  <2>3. picture' <= Fresh => delivered' < picture' + Fresh + faults'
    <3>1. faults' >= faults /\ faults \in Nat /\ faults' \in Nat /\ delivered \in Nat /\ picture \in Nat
      BY <1>4 DEF MirrorInv, Types
    <3>2. picture <= Fresh => delivered < picture + Fresh + faults
      BY DEF MirrorInv, BackendInv
    <3>3. ASSUME picture' <= Fresh PROVE delivered' < picture' + Fresh + faults'
      <4>1. picture' = picture + 1 /\ delivered < picture + Fresh + faults
        BY <1>6, <3>2, <3>3
      <4>2. delivered + 1 < picture' + Fresh + faults
        BY <3>1, <4>1, AgeTogether
      <4>3. delivered' <= delivered + 1 /\ delivered' \in Nat /\ picture' \in Nat
        BY <1>5, <1>6
      <4> QED BY <3>1, <4>2, <4>3, Loosened
    <3> QED BY <3>3
  <2>4. mirrored /\ received' < Fresh => ran' < Fresh + received'
    BY <1>5, <1>6 DEF MirrorInv, Types, BackendInv
  <2>5. ASSUME saysRunning, received' # Never
        PROVE  backendUp /\ ran' <= Fresh + faults' /\ (Asked' => ran' < Fresh + faults')
    <3>1. backendUp /\ ran <= Fresh + faults /\ (Asked => ran < Fresh + faults)
      BY <1>6, <2>5 DEF MirrorInv, BackendInv
    <3>2. Asked' => polling # {}
      BY <1>2 DEF Asked
    <3>3. faults' = faults => Asked
      BY <1>4 DEF Asked
    <3>4. faults \in Nat /\ ran \in Nat
      BY DEF MirrorInv, Types
    <3>5. ran' <= Fresh + faults'
      <4>1. CASE faults' = faults
        BY <1>5, <3>1, <3>3, <3>4, <4>1
      <4>2. CASE faults' = faults + 1
        BY <1>5, <3>1, <3>4, <4>2
      <4> QED BY <1>4, <4>1, <4>2
    <3>6. polling # {} => ran' < Fresh + faults'
      BY <1>5, <2>1, <3>1, <3>4 DEF Asked
    <3> QED BY <3>1, <3>2, <3>5, <3>6
  <2> QED BY <1>2, <2>2, <2>3, <2>4, <2>5 DEF BackendInv
<1> QED BY <1>8, <1>9, <1>10 DEF MirrorInv

(***************************************************************************)
(* MirrorIsRecent, for every lifetime and any number of faults: whatever   *)
(* is lost, late or dead, the backend says of the server only what was so  *)
(* a bounded time ago.                                                     *)
(***************************************************************************)
THEOREM MirrorAlwaysRecent == Spec => []MirrorIsRecent
<1> USE SourceAssumption, MirrorAssumption
<1>1. Init => MirrorInv
  <2> SUFFICES ASSUME Init PROVE MirrorInv
    OBVIOUS
  <2>1. Types
    <3>1. Never \in Nat /\ ran \in Nat
      BY DEF Init, SourceInit, Never
    <3>2. seen \in Nat /\ delivered \in Nat /\ received \in Nat /\ picture \in Nat
          /\ faults \in 0 .. MaxFaults
      BY <3>1 DEF Init, SourceInit
    <3>3. outgoing \subseteq Snapshot /\ snapshot \subseteq Snapshot /\ polling \subseteq Age
      BY DEF Init
    <3>4. /\ process \in {"on", "paused"} /\ running \in BOOLEAN /\ backendUp \in BOOLEAN
          /\ mirrored \in BOOLEAN /\ saysRunning \in BOOLEAN
      BY DEF Init, SourceInit
    <3> QED BY <3>1, <3>2, <3>3, <3>4 DEF Types
  <2>2. ServerInv
    BY DEF Init, SourceInit, ServerInv, Never
  <2>3. BackendInv
    BY DEF Init, SourceInit, BackendInv, Never
  <2> QED BY <2>1, <2>2, <2>3 DEF MirrorInv
<1>2. MirrorInv /\ [Next]_vars => MirrorInv'
  <2> SUFFICES ASSUME MirrorInv, [Next]_vars PROVE MirrorInv'
    OBVIOUS
  <2>1. CASE UNCHANGED vars
    BY <2>1 DEF vars, sourceVars, serverVars, redisVars, backendVars, MirrorInv, Types,
                ServerInv, TrueWhenMade, BackendInv, Asked
  <2> QED BY <2>1, ServerKeeps, OperatorKeeps, TickerKeeps, BackendKeeps, TimeKeeps
             DEF Next, ServerStep
<1>3. MirrorInv => MirrorIsRecent
  BY DEF MirrorInv, Types, BackendInv, MirrorIsRecent, HealthRunning, Shown
<1> QED BY <1>1, <1>2, <1>3, PTL DEF Spec
=============================================================================
