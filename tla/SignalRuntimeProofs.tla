------------------------- MODULE SignalRuntimeProofs -------------------------
(***************************************************************************)
(* The order of the ticker, the worker and the commands, for any number of *)
(* operators, directions and phases: no phase reaches the hardware twice,  *)
(* and a pause is followed by no more steps than were under way.           *)
(***************************************************************************)
EXTENDS SignalRuntime, TLAPS

(***************************************************************************)
(* One job of each kind at most, and each where its owner waits for it;    *)
(* while the worker is inside process_batch, that is the first job.        *)
(***************************************************************************)
JobsInOrder ==
  /\ \A i, j \in 1 .. Len(jobs) : jobs[i] = jobs[j] => i = j
  /\ \A i \in 1 .. Len(jobs) :
       /\ jobs[i] = "step" => ticker = "stepping"
       /\ jobs[i] = "send" => ticker = "sending"
  /\ worker # "idle" => jobs # <<>> /\ Head(jobs) = "batch"

(* A result with a phase that is not announced yet.                        *)
FrameIsDue == frameResult.change
TickIsDue == tickResult.change /\ ticker \in {"stepped", "sending"}

(***************************************************************************)
(* A phase whose result is still on its way is not announced, and only one *)
(* of the two results is on its way with it.                               *)
(***************************************************************************)
Unannounced ==
  /\ \A i \in 1 .. Len(announced) :
       /\ announced[i] <= granted
       /\ FrameIsDue => announced[i] # frameResult.phase
       /\ TickIsDue => announced[i] # tickResult.phase
  /\ FrameIsDue => frameResult.phase <= granted
  /\ TickIsDue => tickResult.phase <= granted
  /\ FrameIsDue /\ TickIsDue => frameResult.phase # tickResult.phase
  /\ AnnouncedOnce

(***************************************************************************)
(* What is left of the work under way, once the system pauses: decoded     *)
(* frames, which grow no more, and a step of the ticker.                   *)
(***************************************************************************)
StepOfTicker == IF ticker = "stepping" THEN 1 ELSE 0

Drains ==
  /\ ready + undecoded <= BatchLimit
  /\ worker = "idle" => ready = 0
  /\ running => strays = 0
  /\ ~running => strays + ready + StepOfTicker <= BatchLimit + 1

RuntimeInv == Types /\ JobsInOrder /\ Unannounced /\ Drains

-----------------------------------------------------------------------------
(* The answers of the device leave the interface in a state it has.        *)
LEMMA HardwareKept ==
  ASSUME HardwareTypeOK, SendAccepted \/ SendRefused
  PROVE  HardwareTypeOK'
BY DEF HardwareTypeOK, ConnectionState, SendAccepted, SendRefused, Written, Acknowledged,
       WriteFails, Rejected

(* The results a step of the phase machine may have.                       *)
LEMMA Results ==
  /\ NoResult \in Result /\ NoResult.phase = 0 /\ NoResult.change = FALSE
  /\ \A p \in Phase : \A c \in BOOLEAN :
       LET made == [phase |-> p, change |-> c]
       IN  made \in Result /\ made.phase = p /\ made.change = c
  /\ \A result \in Result : result.phase \in Phase /\ result.change \in BOOLEAN
<1>1. 0 \in Phase
  BY RuntimeAssumption DEF Phase
<1> QED BY <1>1 DEF NoResult, Result

(* What becomes of the phases when the machine grants, holds or keeps.     *)
LEMMA PhaseTypes ==
  ASSUME Types,
         \/ granted < PhaseLimit /\ granted' = granted + 1 /\ decision' = granted'
         \/ decision' = 0 /\ UNCHANGED granted
         \/ UNCHANGED <<decision, granted>>
  PROVE  decision' \in Phase /\ granted' \in Phase
BY RuntimeAssumption DEF Types, Phase

LEMMA StrayTypes ==
  ASSUME Types, CountStray
  PROVE  strays' \in Nat
BY DEF Types, CountStray

(* The system runs on, or a failed write pauses it.                        *)
LEMMA OutputTypes ==
  ASSUME Types, NEW result \in Result, Output(result)
  PROVE  announced' \in Seq(Phase) /\ running' \in BOOLEAN /\ HardwareTypeOK'
<1>1. CASE ~result.change
  <2>1. UNCHANGED <<announced, running, hardware, connected, port>>
    BY <1>1 DEF Output, hardwareVars
  <2> QED BY <2>1 DEF Types, HardwareTypeOK
<1>2. CASE result.change
  <2>1. announced' = Append(announced, result.phase) /\ result.phase \in Phase
    BY <1>2, Results DEF Output
  <2>2. announced' \in Seq(Phase)
    BY <2>1 DEF Types
  <2>3. /\ running' = running \/ running' = FALSE
        /\ SendAccepted \/ SendRefused
    BY <1>2 DEF Output
  <2>4. running' \in BOOLEAN
    BY <2>3 DEF Types
  <2>5. HardwareTypeOK'
    BY <2>3, HardwareKept DEF Types
  <2> QED BY <2>2, <2>4, <2>5
<1> QED BY <1>1, <1>2

LEMMA TypeKept ==
  ASSUME Types, JobsInOrder, Drains, [Next]_vars
  PROVE  Types'
<1> USE RuntimeAssumption DEF Types
<1>1. CASE FrameArrives
  BY <1>1 DEF FrameArrives, hardwareVars, HardwareTypeOK
<1>2. CASE SubmitBatch
  BY <1>2 DEF SubmitBatch, Job, hardwareVars, HardwareTypeOK
<1>3. CASE BeginBatch
  BY <1>3 DEF BeginBatch, hardwareVars, HardwareTypeOK
<1>4. CASE DecodePacket
  BY <1>4 DEF DecodePacket, Drains, hardwareVars, HardwareTypeOK
<1>5. CASE Detect
  BY <1>5 DEF Detect, hardwareVars, HardwareTypeOK
<1>6. CASE ProcessFrame
  <2>1. ready' \in 0 .. BatchLimit /\ worker' \in {"idle", "decoding", "framing", "output"}
    BY <1>6 DEF ProcessFrame
  <2>2. CASE StepGrants(frameResult)
    <3>1. granted' \in Phase /\ decision' \in Phase
      BY <2>2, PhaseTypes DEF StepGrants
    <3>2. frameResult' \in Result
      BY <2>2, <3>1, Results DEF StepGrants
    <3> QED BY <1>6, <2>1, <2>2, <3>1, <3>2, StrayTypes
            DEF ProcessFrame, StepGrants, hardwareVars, HardwareTypeOK
  <2>3. CASE StepHolds(frameResult) \/ StepKeeps(frameResult)
    <3>1. granted' \in Phase /\ decision' \in Phase
      BY <2>3, PhaseTypes DEF StepHolds, StepKeeps
    <3>2. frameResult' \in Result
      BY <2>3, Results DEF StepHolds, StepKeeps
    <3> QED BY <1>6, <2>1, <2>3, <3>1, <3>2, StrayTypes
            DEF ProcessFrame, StepHolds, StepKeeps, hardwareVars, HardwareTypeOK
  <2> QED BY <1>6, <2>2, <2>3 DEF ProcessFrame
<1>7. CASE SkipFrame
  BY <1>7 DEF SkipFrame, hardwareVars, HardwareTypeOK
<1>8. CASE OutputFrame
  <2>1. announced' \in Seq(Phase) /\ running' \in BOOLEAN /\ HardwareTypeOK'
    BY <1>8, OutputTypes DEF OutputFrame
  <2> QED BY <1>8, <2>1, Results DEF OutputFrame
<1>9. CASE EndBatch
  BY <1>9 DEF EndBatch, JobsInOrder, hardwareVars, HardwareTypeOK
<1>10. CASE StepWithoutFrames
  <2>1. jobs' \in Seq(Job) /\ ticker' = "stepped"
    BY <1>10 DEF StepWithoutFrames
  <2>2. CASE StepGrants(tickResult)
    <3>1. granted' \in Phase /\ decision' \in Phase
      BY <2>2, PhaseTypes DEF StepGrants
    <3>2. tickResult' \in Result
      BY <2>2, <3>1, Results DEF StepGrants
    <3> QED BY <1>10, <2>1, <2>2, <3>1, <3>2, StrayTypes
            DEF StepWithoutFrames, StepGrants, hardwareVars, HardwareTypeOK
  <2>3. CASE \/ StepHolds(tickResult) \/ StepKeeps(tickResult)
             \/ tickResult' = NoResult /\ UNCHANGED <<decision, granted, strays>>
    <3>1. granted' \in Phase /\ decision' \in Phase
      BY <2>3, PhaseTypes DEF StepHolds, StepKeeps
    <3>2. tickResult' \in Result /\ strays' \in Nat
      BY <2>3, Results, StrayTypes DEF StepHolds, StepKeeps
    <3> QED BY <1>10, <2>1, <3>1, <3>2 DEF StepWithoutFrames, hardwareVars, HardwareTypeOK
  <2> QED BY <1>10, <2>2, <2>3 DEF StepWithoutFrames
<1>11. CASE OutputTick
  <2>1. announced' \in Seq(Phase) /\ running' \in BOOLEAN /\ HardwareTypeOK'
    BY <1>11, OutputTypes DEF OutputTick
  <2>2. jobs' \in Seq(Job)
    BY <1>11 DEF OutputTick
  <2> QED BY <1>11, <2>1, <2>2 DEF OutputTick
<1>12. CASE TickerBegins
  BY <1>12 DEF TickerBegins, Job, hardwareVars, HardwareTypeOK
<1>13. CASE TickerSends
  BY <1>13 DEF TickerSends, Job, hardwareVars, HardwareTypeOK
<1>14. CASE TickerEnds
  <2>1. running' = running \/ running' = (running /\ HardwareIsSafe)
    BY <1>14 DEF TickerEnds
  <2>2. running' \in BOOLEAN /\ tickResult' \in Result
    BY <1>14, <2>1, Results DEF TickerEnds
  <2> QED BY <2>2, <1>14, <2>1 DEF TickerEnds, hardwareVars, HardwareTypeOK
<1>15. ASSUME NEW o \in Operators, OperatorStep(o) PROVE Types'
  <2>1. UNCHANGED <<waiting, CommandFrame>>
    BY <1>15 DEF OperatorStep, CheckHardware, SetRunning, Stop, ResetPhase, Acknowledge
  <2>2. \/ operator' = operator
        \/ operator' = [operator EXCEPT ![o] = Idle]
        \/ \E command \in {"START", "STOP", "RESTART"} : \E at \in {"checked", "resetting"} :
             operator' = [operator EXCEPT ![o] = [command |-> command, at |-> at]]
        \/ operator' = [operator EXCEPT ![o] = [command |-> operator[o].command, at |-> "reset"]]
    BY <1>15 DEF OperatorStep, CheckHardware, SetRunning, Stop, ResetPhase, Acknowledge,
                 OperatorAt
  <2>3. operator' \in [Operators -> [command : {"none", "START", "STOP", "RESTART"},
                                     at : {"idle", "checked", "resetting", "reset"}]]
    BY <1>15, <2>2 DEF Idle
  <2>4. running' = running \/ running' = TRUE \/ running' = FALSE
    BY <1>15 DEF OperatorStep, CheckHardware, SetRunning, Stop, ResetPhase, Acknowledge,
                 Pause, Resume
  <2>5. (decision' = decision \/ decision' = 0) /\ (strays' = strays \/ strays' = 0)
    BY <1>15 DEF OperatorStep, CheckHardware, SetRunning, Stop, ResetPhase, Acknowledge,
                 Pause, Resume
  <2>6. running' \in BOOLEAN
    BY <2>4
  <2>7. decision' \in Phase /\ strays' \in Nat
    BY <2>5 DEF Phase
  <2> QED BY <2>1, <2>3, <2>6, <2>7 DEF CommandFrame, hardwareVars, HardwareTypeOK
<1>16. CASE UNCHANGED vars
  BY <1>16 DEF vars, runtimeVars, hardwareVars, HardwareTypeOK
<1> QED BY <1>1, <1>2, <1>3, <1>4, <1>5, <1>6, <1>7, <1>8, <1>9, <1>10, <1>11, <1>12, <1>13,
           <1>14, <1>15, <1>16 DEF Next, WorkerStep, TickerStep

(* A command moves nothing but the running flag, the phase and itself.     *)
LEMMA CommandsLeaveWork ==
  ASSUME NEW o \in Operators, OperatorStep(o)
  PROVE  UNCHANGED <<granted, announced, jobs, worker, undecoded, ready, frameResult, ticker,
                     tickResult>>
BY DEF OperatorStep, CheckHardware, SetRunning, Stop, ResetPhase, Acknowledge, CommandFrame

LEMMA JobsKept ==
  ASSUME Types, JobsInOrder, [Next]_vars
  PROVE  JobsInOrder'
<1> USE DEF JobsInOrder
<1>1. CASE UNCHANGED <<jobs, ticker, worker>>
  BY <1>1
<1>2. CASE SubmitBatch
  <2>1. jobs' = Append(jobs, "batch") /\ \A i \in 1 .. Len(jobs) : jobs[i] # "batch"
    BY <1>2 DEF SubmitBatch, BatchInProgress, Types
  <2>2. worker = "idle"
    BY <2>1 DEF Types
  <2> QED BY <1>2, <2>1, <2>2 DEF SubmitBatch, Types
<1>3. CASE BeginBatch \/ Detect \/ ProcessFrame \/ OutputFrame
  BY <1>3 DEF BeginBatch, Detect, ProcessFrame, OutputFrame
<1>4. CASE EndBatch
  BY <1>4 DEF EndBatch, Types
<1>5. CASE StepWithoutFrames
  BY <1>5 DEF StepWithoutFrames, Types
<1>6. CASE OutputTick
  BY <1>6 DEF OutputTick, Types
<1>7. CASE TickerBegins
  BY <1>7 DEF TickerBegins, Types
<1>8. CASE TickerSends
  BY <1>8 DEF TickerSends, Types
<1>9. CASE TickerEnds
  BY <1>9 DEF TickerEnds, Types
<1> QED BY <1>1, <1>2, <1>3, <1>4, <1>5, <1>6, <1>7, <1>8, <1>9, CommandsLeaveWork
        DEF Next, WorkerStep, TickerStep, FrameArrives, DecodePacket, SkipFrame, vars, runtimeVars

-----------------------------------------------------------------------------
(* The first job is the ticker's exactly when the ticker waits for it.     *)
LEMMA FirstJob ==
  ASSUME Types, JobsInOrder, jobs # <<>>
  PROVE  /\ Head(jobs) = "step" => ticker = "stepping"
         /\ Head(jobs) = "send" => ticker = "sending"
BY DEF Types, JobsInOrder

(* Putting a phase on the list of those announced.                         *)
LEMMA AnnouncesOne ==
  ASSUME Types, AnnouncedOnce, NEW p \in Phase,
         \A i \in 1 .. Len(announced) : announced[i] # p,
         announced' = Append(announced, p)
  PROVE  /\ AnnouncedOnce'
         /\ \A i \in 1 .. Len(announced') :
              announced'[i] = p \/ \E k \in 1 .. Len(announced) : announced'[i] = announced[k]
<1>1. Len(announced') = Len(announced) + 1 /\ Len(announced) \in Nat
  BY DEF Types
<1>2. \A i \in 1 .. Len(announced') :
        announced'[i] = IF i \in 1 .. Len(announced) THEN announced[i] ELSE p
  BY <1>1 DEF Types
<1>3. DOMAIN announced' = 1 .. Len(announced') /\ DOMAIN announced = 1 .. Len(announced)
  BY DEF Types
<1> QED BY <1>1, <1>2, <1>3 DEF AnnouncedOnce

LEMMA AnnouncementsKept ==
  ASSUME Types, JobsInOrder, Unannounced, [Next]_vars
  PROVE  Unannounced'
<1> USE DEF Unannounced
<1>1. CASE UNCHANGED <<announced, granted, frameResult, tickResult, ticker>>
  BY <1>1 DEF FrameIsDue, TickIsDue, AnnouncedOnce
<1>2. CASE ProcessFrame
  <2>1. UNCHANGED <<announced, tickResult, ticker>>
    BY <1>2 DEF ProcessFrame
  <2>2. CASE StepGrants(frameResult)
    <3>1. frameResult'.phase = granted + 1 /\ granted' = granted + 1 /\ granted \in Nat
      BY <2>2 DEF StepGrants, Types, Phase
    <3>2. /\ \A i \in 1 .. Len(announced) : announced[i] \in Phase
          /\ tickResult.phase \in Phase
      BY Results DEF Types
    <3> QED BY <2>1, <3>1, <3>2 DEF TickIsDue, AnnouncedOnce, Phase
  <2>3. CASE StepHolds(frameResult) \/ StepKeeps(frameResult)
    <3>1. ~FrameIsDue' /\ granted' = granted
      BY <2>3 DEF StepHolds, StepKeeps, NoResult, FrameIsDue
    <3> QED BY <2>1, <3>1 DEF TickIsDue, AnnouncedOnce
  <2> QED BY <1>2, <2>2, <2>3 DEF ProcessFrame
<1>3. CASE StepWithoutFrames
  <2>1. UNCHANGED <<announced, frameResult>>
    BY <1>3 DEF StepWithoutFrames
  <2>2. CASE StepGrants(tickResult)
    <3>1. tickResult'.phase = granted + 1 /\ granted' = granted + 1 /\ granted \in Nat
      BY <2>2 DEF StepGrants, Types, Phase
    <3>2. /\ \A i \in 1 .. Len(announced) : announced[i] \in Phase
          /\ frameResult.phase \in Phase
      BY Results DEF Types
    <3> QED BY <2>1, <3>1, <3>2 DEF FrameIsDue, AnnouncedOnce, Phase
  <2>3. CASE \/ StepHolds(tickResult) \/ StepKeeps(tickResult)
             \/ tickResult' = NoResult /\ UNCHANGED granted
    <3>1. ~TickIsDue' /\ granted' = granted
      BY <2>3 DEF StepHolds, StepKeeps, NoResult, TickIsDue
    <3> QED BY <2>1, <3>1 DEF FrameIsDue, AnnouncedOnce
  <2> QED BY <1>3, <2>2, <2>3 DEF StepWithoutFrames
<1>4. CASE OutputFrame
  <2>1. UNCHANGED <<granted, tickResult, ticker>> /\ ~FrameIsDue'
    BY <1>4 DEF OutputFrame, NoResult, FrameIsDue
  <2>2. CASE ~FrameIsDue
    BY <1>4, <2>1, <2>2 DEF OutputFrame, Output, FrameIsDue, TickIsDue, AnnouncedOnce
  <2>3. CASE FrameIsDue
    <3>1. announced' = Append(announced, frameResult.phase) /\ frameResult.phase \in Phase
      BY <1>4, <2>3 DEF OutputFrame, Output, FrameIsDue, Types, Result
    <3>2. /\ AnnouncedOnce'
          /\ \A i \in 1 .. Len(announced') : announced'[i] = frameResult.phase
               \/ \E k \in 1 .. Len(announced) : announced'[i] = announced[k]
      BY <2>3, <3>1, AnnouncesOne
    <3> QED BY <2>1, <2>3, <3>2 DEF TickIsDue
  <2> QED BY <2>2, <2>3
<1>5. CASE OutputTick
  <2>1. /\ UNCHANGED <<granted, frameResult>> /\ ~TickIsDue'
        /\ ticker = "sending"
    BY <1>5, FirstJob DEF OutputTick, TickIsDue
  <2>2. CASE ~tickResult.change
    BY <1>5, <2>1, <2>2 DEF OutputTick, Output, FrameIsDue, AnnouncedOnce
  <2>3. CASE tickResult.change
    <3>1. announced' = Append(announced, tickResult.phase) /\ tickResult.phase \in Phase
      BY <1>5, <2>3 DEF OutputTick, Output, Types, Result
    <3>2. TickIsDue
      BY <2>1, <2>3 DEF TickIsDue
    <3>3. /\ AnnouncedOnce'
          /\ \A i \in 1 .. Len(announced') : announced'[i] = tickResult.phase
               \/ \E k \in 1 .. Len(announced) : announced'[i] = announced[k]
      BY <3>1, <3>2, AnnouncesOne
    <3> QED BY <2>1, <3>2, <3>3 DEF FrameIsDue
  <2> QED BY <2>2, <2>3
<1>6. CASE TickerBegins \/ TickerSends \/ TickerEnds
  BY <1>6 DEF TickerBegins, TickerSends, TickerEnds, NoResult, FrameIsDue, TickIsDue,
              AnnouncedOnce
<1> QED BY <1>1, <1>2, <1>3, <1>4, <1>5, <1>6, CommandsLeaveWork
        DEF Next, WorkerStep, TickerStep, FrameArrives, SubmitBatch, BeginBatch, DecodePacket,
            Detect, SkipFrame, EndBatch, vars, runtimeVars

-----------------------------------------------------------------------------
LEMMA DrainsKept ==
  ASSUME Types, JobsInOrder, Drains, [Next]_vars
  PROVE  Drains'
<1> USE RuntimeAssumption DEF Drains, StepOfTicker, Types
<1>1. CASE UNCHANGED <<running, strays, ready, undecoded, worker, ticker>>
  BY <1>1
<1>2. CASE SubmitBatch
  <2>1. worker = "idle"
    BY <1>2 DEF SubmitBatch, BatchInProgress, JobsInOrder
  <2> QED BY <1>2, <2>1 DEF SubmitBatch
<1>3. CASE BeginBatch \/ DecodePacket \/ Detect \/ SkipFrame \/ EndBatch
  BY <1>3 DEF BeginBatch, DecodePacket, Detect, SkipFrame, EndBatch
<1>4. CASE ProcessFrame
  <2>1. CountStray
    BY <1>4 DEF ProcessFrame, StepGrants, StepHolds, StepKeeps
  <2> QED BY <1>4, <2>1 DEF ProcessFrame, CountStray
<1>5. CASE OutputFrame
  BY <1>5 DEF OutputFrame, Output
<1>6. CASE StepWithoutFrames
  <2>1. ticker = "stepping"
    BY <1>6, FirstJob DEF StepWithoutFrames
  <2>2. CountStray \/ strays' = strays
    BY <1>6 DEF StepWithoutFrames, StepGrants, StepHolds, StepKeeps
  <2> QED BY <1>6, <2>1, <2>2 DEF StepWithoutFrames, CountStray
<1>7. CASE OutputTick
  <2>1. ticker = "sending"
    BY <1>7, FirstJob DEF OutputTick
  <2> QED BY <1>7, <2>1 DEF OutputTick, Output
<1>8. CASE TickerBegins \/ TickerSends \/ TickerEnds
  BY <1>8 DEF TickerBegins, TickerSends, TickerEnds
<1>9. ASSUME NEW o \in Operators, OperatorStep(o) PROVE Drains'
  <2>1. /\ UNCHANGED <<worker, undecoded, ready, ticker>>
        /\ \/ UNCHANGED <<running, strays>>
           \/ Pause \/ Resume
    BY <1>9 DEF OperatorStep, CheckHardware, SetRunning, Stop, ResetPhase, Acknowledge,
                CommandFrame
  <2> QED BY <2>1 DEF Pause, Resume
<1> QED BY <1>1, <1>2, <1>3, <1>4, <1>5, <1>6, <1>7, <1>8, <1>9
        DEF Next, WorkerStep, TickerStep, FrameArrives, vars, runtimeVars

-----------------------------------------------------------------------------
LEMMA RuntimeInitInv == Init => RuntimeInv
<1> SUFFICES ASSUME Init PROVE RuntimeInv
  OBVIOUS
<1> USE RuntimeAssumption DEF Init
<1>1. HardwareTypeOK
  <2>1. PICK outcome \in ConnectOutcomes :
          hardware = outcome[1] /\ connected = outcome[2] /\ port = outcome[3]
    BY DEF HardwareInit
  <2>2. CASE outcome = <<"SIMULATION", FALSE, "none">>
    BY <2>1, <2>2 DEF HardwareTypeOK, ConnectionState
  <2>3. CASE outcome = <<"ERROR", FALSE, "none">>
    BY <2>1, <2>3 DEF HardwareTypeOK, ConnectionState
  <2>4. CASE outcome = <<"CONNECTED", TRUE, "open">>
    BY <2>1, <2>4 DEF HardwareTypeOK, ConnectionState
  <2>5. CASE outcome = <<"CONNECTING", FALSE, "closed">>
    BY <2>1, <2>5 DEF HardwareTypeOK, ConnectionState
  <2> QED BY <2>2, <2>3, <2>4, <2>5 DEF ConnectOutcomes
<1>2. Types
  <2>1. running \in BOOLEAN
    BY DEF HardwareIsSafe
  <2>2. decision \in Phase /\ granted \in Phase /\ announced \in Seq(Phase)
    BY DEF Phase
  <2>3. operator \in [Operators -> [command : {"none", "START", "STOP", "RESTART"},
                                    at : {"idle", "checked", "resetting", "reset"}]]
    BY DEF Idle
  <2> QED BY <1>1, <2>1, <2>2, <2>3, Results DEF Types
<1>3. JobsInOrder /\ Unannounced
  BY DEF JobsInOrder, Unannounced, FrameIsDue, TickIsDue, NoResult, AnnouncedOnce
<1>4. Drains
  BY DEF Drains, StepOfTicker
<1> QED BY <1>2, <1>3, <1>4 DEF RuntimeInv

LEMMA RuntimeNextInv == RuntimeInv /\ [Next]_vars => RuntimeInv'
BY TypeKept, JobsKept, AnnouncementsKept, DrainsKept DEF RuntimeInv

(***************************************************************************)
(* The types of runtime, worker, ticker and interface.                     *)
(***************************************************************************)
THEOREM RuntimeTypes == Spec => []TypeOK
<1>1. RuntimeInv => TypeOK
  <2> SUFFICES ASSUME RuntimeInv PROVE OneJobOfAKind
    BY DEF RuntimeInv, TypeOK
  <2>1. jobs \in Seq(Job)
    BY DEF RuntimeInv, Types
  <2>2. DOMAIN jobs = 1 .. Len(jobs)
    BY <2>1
  <2> QED BY <2>2 DEF RuntimeInv, JobsInOrder, OneJobOfAKind
<1> QED BY <1>1, RuntimeInitInv, RuntimeNextInv, PTL DEF Spec

(***************************************************************************)
(* No phase is logged and sent twice, whatever the batches, the ticker and *)
(* the operators do in between.                                            *)
(***************************************************************************)
THEOREM NeverAnnouncedTwice == Spec => []AnnouncedOnce
<1>1. RuntimeInv => AnnouncedOnce
  BY DEF RuntimeInv, Unannounced
<1> QED BY <1>1, RuntimeInitInv, RuntimeNextInv, PTL DEF Spec

(***************************************************************************)
(* However the system came to pause, the phase machine makes at most the   *)
(* steps that were under way.                                              *)
(***************************************************************************)
THEOREM PauseAlwaysDrains == Spec => []PauseDrains
<1>1. RuntimeInv => PauseDrains
  BY RuntimeAssumption DEF RuntimeInv, Types, Drains, StepOfTicker, PauseDrains
<1> QED BY <1>1, RuntimeInitInv, RuntimeNextInv, PTL DEF Spec
=============================================================================
