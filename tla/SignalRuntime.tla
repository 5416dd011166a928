---------------------------- MODULE SignalRuntime ----------------------------
(***************************************************************************)
(* Who drives the phase machine on the server, and in which order its      *)
(* decisions reach the hardware: the asyncio loop (ticker, frame           *)
(* coordinator, operator commands), the single worker thread of            *)
(* frame_executor, and the threads that reset the phase for a command.     *)
(*                                                                         *)
(* The phase machine itself is TrafficPipeline; here one of its steps      *)
(* keeps the phase, falls back to all-red or grants a new phase, which     *)
(* gets the next number.  0 stands for no phase.                           *)
(***************************************************************************)
EXTENDS Esp32Interface, Sequences, FiniteSets

CONSTANTS
  Operators,    \* the dashboard requests that may be in progress together
  BatchLimit,   \* number of directions: frames that may wait or form a batch
  PhaseLimit    \* bound of the model: phases granted

ASSUME RuntimeAssumption ==
  /\ BatchLimit \in Nat \ {0}
  /\ PhaseLimit \in Nat

VARIABLES
  running,      \* ctx.system_running
  decision,     \* number of the phase in pipeline.active_decision, or 0
  granted,      \* number of phases granted so far
  announced,    \* the phases logged and sent to the hardware, in order
  waiting,      \* number of frames in handler.latest_frames
  jobs,         \* jobs submitted to frame_executor, the first one in progress
  worker,       \* where the worker is in process_batch
  undecoded,    \* packets of the batch that are not decoded yet
  ready,        \* decoded packets of the batch that are not processed yet
  frameResult,  \* PipelineResult of the frame that process_result is called for
  ticker,       \* where run_runtime_iteration is
  tickResult,   \* the PipelineResult it holds
  operator,     \* where each operator's handle_command is
  strays        \* steps of the phase machine since the system last paused

runtimeVars == <<running, decision, granted, announced, waiting, jobs, worker, undecoded,
                 ready, frameResult, ticker, tickResult, operator, strays>>
vars == <<runtimeVars, hardwareVars>>

Phase == 0 .. PhaseLimit
Result == [phase : Phase, change : BOOLEAN]
NoResult == [phase |-> 0, change |-> FALSE]
Job == {"batch", "step", "send"}
Idle == [command |-> "none", at |-> "idle"]

Types ==
  /\ HardwareTypeOK
  /\ running \in BOOLEAN
  /\ decision \in Phase /\ granted \in Phase
  /\ announced \in Seq(Phase)
  /\ waiting \in 0 .. BatchLimit
  /\ jobs \in Seq(Job)
  /\ worker \in {"idle", "decoding", "framing", "output"}
  /\ undecoded \in 0 .. BatchLimit /\ ready \in 0 .. BatchLimit
  /\ frameResult \in Result /\ tickResult \in Result
  /\ ticker \in {"idle", "stepping", "stepped", "sending", "sent"}
  /\ operator \in [Operators -> [command : {"none", "START", "STOP", "RESTART"},
                                 at : {"idle", "checked", "resetting", "reset"}]]
  /\ strays \in Nat

(* The executor's queue needs no bound: of each kind of job one at most    *)
(* waits or runs, however ticker, coordinator and commands interleave.     *)
OneJobOfAKind == \A i, j \in DOMAIN jobs : jobs[i] = jobs[j] => i = j

TypeOK == Types /\ OneJobOfAKind

(* initialize_control_manager: without usable hardware nothing runs.       *)
Init ==
  /\ HardwareInit
  /\ running = HardwareIsSafe
  /\ decision = 0 /\ granted = 0 /\ announced = <<>>
  /\ waiting = 0 /\ jobs = <<>> /\ worker = "idle" /\ undecoded = 0 /\ ready = 0
  /\ frameResult = NoResult /\ tickResult = NoResult
  /\ ticker = "idle"
  /\ operator = [o \in Operators |-> Idle]
  /\ strays = 0

(* The event loop runs one handler at a time, and a handler gives it up    *)
(* only where it awaits: not between the hardware check of a START and its *)
(* effect.                                                                 *)
LoopIsFree == \A o \in Operators : operator[o].at # "checked"

-----------------------------------------------------------------------------
(***************************************************************************)
(* One step of the phase machine, under the pipeline's lock.               *)
(***************************************************************************)
CountStray == strays' = IF running THEN 0 ELSE strays + 1

StepGrants(result) ==
  /\ granted < PhaseLimit
  /\ granted' = granted + 1
  /\ decision' = granted'
  /\ result' = [phase |-> granted', change |-> TRUE]
  /\ CountStray

StepHolds(result) ==
  /\ decision' = 0
  /\ result' = NoResult
  /\ CountStray
  /\ UNCHANGED granted

(* Mutant of StepKeeps: a kept phase is reported as a change again.         *)
StepKeeps_AsChange(result) ==
  /\ decision # 0
  /\ result' = [phase |-> decision, change |-> TRUE]
  /\ CountStray
  /\ UNCHANGED <<decision, granted>>

StepKeeps(result) ==
  /\ decision # 0
  /\ result' = [phase |-> decision, change |-> FALSE]
  /\ CountStray
  /\ UNCHANGED <<decision, granted>>

(***************************************************************************)
(* ControlManager.process_result: a new phase is logged and sent; if that  *)
(* fails the system pauses.                                                *)
(***************************************************************************)
Output(result) ==
  IF result.change
  THEN /\ announced' = Append(announced, result.phase)
       /\ \/ SendAccepted /\ UNCHANGED running
          \/ SendRefused /\ running' = FALSE
  ELSE UNCHANGED <<announced, running, hardwareVars>>

-----------------------------------------------------------------------------
(***************************************************************************)
(* Frames: _handle_video_frame, run_coordinator and process_batch.         *)
(***************************************************************************)
FrameArrives ==
  /\ LoopIsFree
  /\ running
  /\ waiting < BatchLimit
  /\ waiting' = waiting + 1
  /\ UNCHANGED <<running, decision, granted, announced, jobs, worker, undecoded, ready,
                 frameResult, ticker, tickResult, operator, strays, hardwareVars>>

BatchInProgress == \E i \in DOMAIN jobs : jobs[i] = "batch"

(* Mutant of SubmitBatch: the coordinator does not wait for the batch it    *)
(* has submitted.                                                          *)
SubmitBatch_Unawaited ==
  /\ LoopIsFree
  /\ waiting > 0
  /\ undecoded' = waiting
  /\ waiting' = 0
  /\ jobs' = Append(jobs, "batch")
  /\ UNCHANGED <<running, decision, granted, announced, worker, ready, frameResult,
                 ticker, tickResult, operator, strays, hardwareVars>>

SubmitBatch ==
  /\ LoopIsFree
  /\ waiting > 0
  /\ ~BatchInProgress
  /\ undecoded' = waiting
  /\ waiting' = 0
  /\ jobs' = Append(jobs, "batch")
  /\ UNCHANGED <<running, decision, granted, announced, worker, ready, frameResult,
                 ticker, tickResult, operator, strays, hardwareVars>>

BeginBatch ==
  /\ jobs # <<>> /\ Head(jobs) = "batch" /\ worker = "idle"
  /\ worker' = "decoding"
  /\ UNCHANGED <<running, decision, granted, announced, waiting, jobs, undecoded, ready,
                 frameResult, ticker, tickResult, operator, strays, hardwareVars>>

(* Mutant of DecodePacket: a paused system still decodes.                  *)
DecodePacket_WhilePaused ==
  /\ worker = "decoding" /\ undecoded > 0
  /\ undecoded' = undecoded - 1
  /\ ready' \in {ready, ready + 1}
  /\ UNCHANGED <<running, decision, granted, announced, waiting, jobs, worker, frameResult,
                 ticker, tickResult, operator, strays, hardwareVars>>

(* A packet is dropped when the system is paused, stale or not a picture.  *)
DecodePacket ==
  /\ worker = "decoding" /\ undecoded > 0
  /\ undecoded' = undecoded - 1
  /\ ready' \in IF running THEN {ready, ready + 1} ELSE {ready}
  /\ UNCHANGED <<running, decision, granted, announced, waiting, jobs, worker, frameResult,
                 ticker, tickResult, operator, strays, hardwareVars>>

Detect ==
  /\ worker = "decoding" /\ undecoded = 0
  /\ worker' = "framing"
  /\ UNCHANGED <<running, decision, granted, announced, waiting, jobs, undecoded, ready,
                 frameResult, ticker, tickResult, operator, strays, hardwareVars>>

(* _process_frame_locked, up to the step of the phase machine; the system  *)
(* may have been paused meanwhile.                                         *)
ProcessFrame ==
  /\ worker = "framing" /\ ready > 0
  /\ ready' = ready - 1
  /\ StepGrants(frameResult) \/ StepHolds(frameResult) \/ StepKeeps(frameResult)
  /\ worker' = "output"
  /\ UNCHANGED <<running, announced, waiting, jobs, undecoded, ticker, tickResult, operator,
                 hardwareVars>>

(* A frame that got stale while the batch was detected is left out.        *)
SkipFrame ==
  /\ worker = "framing" /\ ready > 0
  /\ ready' = ready - 1
  /\ UNCHANGED <<running, decision, granted, announced, waiting, jobs, worker, undecoded,
                 frameResult, ticker, tickResult, operator, strays, hardwareVars>>

OutputFrame ==
  /\ worker = "output"
  /\ Output(frameResult)
  /\ worker' = "framing"
  /\ frameResult' = NoResult
  /\ UNCHANGED <<decision, granted, waiting, jobs, undecoded, ready, ticker, tickResult,
                 operator, strays>>

(* The batch is done, or the detector or a tracker raised and the rest of  *)
(* it is lost.                                                             *)
EndBatch ==
  /\ worker = "framing"
  /\ ready' = 0
  /\ worker' = "idle"
  /\ jobs' = Tail(jobs)
  /\ UNCHANGED <<running, decision, granted, announced, waiting, undecoded, frameResult,
                 ticker, tickResult, operator, strays, hardwareVars>>

-----------------------------------------------------------------------------
(***************************************************************************)
(* The ticker, run_runtime_iteration: it awaits two jobs of the worker,    *)
(* one after the other, and other jobs may come between them.              *)
(***************************************************************************)
TickerBegins ==
  /\ LoopIsFree
  /\ ticker = "idle" /\ running /\ decision # 0
  /\ jobs' = Append(jobs, "step")
  /\ ticker' = "stepping"
  /\ UNCHANGED <<running, decision, granted, announced, waiting, worker, undecoded, ready,
                 frameResult, tickResult, operator, strays, hardwareVars>>

(* process_step({}) returns at once when the phase was reset meanwhile.    *)
StepWithoutFrames ==
  /\ jobs # <<>> /\ Head(jobs) = "step" /\ worker = "idle"
  /\ jobs' = Tail(jobs)
  /\ ticker' = "stepped"
  /\ \/ /\ decision # 0
        /\ StepGrants(tickResult) \/ StepHolds(tickResult) \/ StepKeeps(tickResult)
     \/ /\ decision = 0
        /\ tickResult' = NoResult
        /\ UNCHANGED <<decision, granted, strays>>
  /\ UNCHANGED <<running, announced, waiting, worker, undecoded, ready, frameResult,
                 operator, hardwareVars>>

(* Mutant of TickerSends: a result is discarded when the system paused.    *)
TickerSends_OnlyWhileRunning ==
  /\ LoopIsFree
  /\ ticker = "stepped"
  /\ IF running
     THEN jobs' = Append(jobs, "send") /\ ticker' = "sending"
     ELSE UNCHANGED jobs /\ ticker' = "sent"
  /\ UNCHANGED <<running, decision, granted, announced, waiting, worker, undecoded, ready,
                 frameResult, tickResult, operator, strays, hardwareVars>>

TickerSends ==
  /\ LoopIsFree
  /\ ticker = "stepped"
  /\ jobs' = Append(jobs, "send")
  /\ ticker' = "sending"
  /\ UNCHANGED <<running, decision, granted, announced, waiting, worker, undecoded, ready,
                 frameResult, tickResult, operator, strays, hardwareVars>>

OutputTick ==
  /\ jobs # <<>> /\ Head(jobs) = "send" /\ worker = "idle"
  /\ jobs' = Tail(jobs)
  /\ Output(tickResult)
  /\ ticker' = "sent"
  /\ UNCHANGED <<decision, granted, waiting, worker, undecoded, ready, frameResult,
                 tickResult, operator, strays>>

(* The snapshot is published; if that raises, the hardware is checked.     *)
TickerEnds ==
  /\ LoopIsFree
  /\ ticker = "sent"
  /\ running' \in {running, running /\ HardwareIsSafe}
  /\ ticker' = "idle"
  /\ tickResult' = NoResult
  /\ UNCHANGED <<decision, granted, announced, waiting, jobs, worker, undecoded, ready,
                 frameResult, operator, strays, hardwareVars>>

-----------------------------------------------------------------------------
(***************************************************************************)
(* handle_command.                                                         *)
(***************************************************************************)
OperatorAt(o, command, at) == operator' = [operator EXCEPT ![o] = [command |-> command, at |-> at]]

CommandFrame == <<granted, announced, jobs, worker, undecoded, ready, frameResult, ticker,
                  tickResult, hardwareVars>>

Pause == running' = FALSE /\ UNCHANGED strays
Resume == running' = TRUE /\ strays' = 0

(* START and RESTART are refused when the hardware is not usable.          *)
CheckHardware(o) ==
  /\ LoopIsFree
  /\ operator[o] = Idle
  /\ \E command \in {"START", "RESTART"} :
       \/ HardwareIsSafe /\ OperatorAt(o, command, "checked") /\ UNCHANGED <<running, strays>>
       \/ ~HardwareIsSafe /\ Pause /\ UNCHANGED operator
  /\ UNCHANGED <<decision, waiting, CommandFrame>>

SetRunning(o) ==
  /\ operator[o].at = "checked"
  /\ Resume
  /\ IF operator[o].command = "RESTART"
     THEN OperatorAt(o, "RESTART", "resetting")
     ELSE operator' = [operator EXCEPT ![o] = Idle]
  /\ UNCHANGED <<decision, waiting, CommandFrame>>

Stop(o) ==
  /\ LoopIsFree
  /\ operator[o] = Idle
  /\ Pause
  /\ OperatorAt(o, "STOP", "resetting")
  /\ UNCHANGED <<decision, waiting, CommandFrame>>

(* A thread waits for the pipeline's lock, which is held for one step of   *)
(* the phase machine, and forgets the phase.                               *)
ResetPhase(o) ==
  /\ operator[o].at = "resetting"
  /\ decision' = 0
  /\ OperatorAt(o, operator[o].command, "reset")
  /\ UNCHANGED <<running, waiting, strays, CommandFrame>>

(* The cameras are told, and the operator gets the acknowledgement.        *)
Acknowledge(o) ==
  /\ LoopIsFree
  /\ operator[o].at = "reset"
  /\ operator' = [operator EXCEPT ![o] = Idle]
  /\ UNCHANGED <<running, decision, waiting, strays, CommandFrame>>

-----------------------------------------------------------------------------
WorkerStep ==
  \/ BeginBatch \/ DecodePacket \/ Detect \/ ProcessFrame \/ SkipFrame
  \/ OutputFrame \/ EndBatch \/ StepWithoutFrames \/ OutputTick

TickerStep == TickerBegins \/ TickerSends \/ TickerEnds

OperatorStep(o) ==
  CheckHardware(o) \/ SetRunning(o) \/ Stop(o) \/ ResetPhase(o) \/ Acknowledge(o)

Next == FrameArrives \/ SubmitBatch \/ WorkerStep \/ TickerStep \/ \E o \in Operators : OperatorStep(o)

Spec == Init /\ [][Next]_vars

(***************************************************************************)
(* The worker takes its jobs, and asyncio's loop runs the handlers that    *)
(* are ready in their order, so one that is ready again and again between  *)
(* the turns of others gets its turn (SF).  No frame and no command need   *)
(* ever come.                                                              *)
(***************************************************************************)
Fairness ==
  /\ WF_vars(WorkerStep)
  /\ SF_vars(TickerSends)
  /\ SF_vars(TickerEnds)
  /\ \A o \in Operators : WF_vars(SetRunning(o)) /\ WF_vars(ResetPhase(o)) /\ SF_vars(Acknowledge(o))

FairSpec == Spec /\ Fairness

-----------------------------------------------------------------------------
(***************************************************************************)
(* A phase is logged and sent to the hardware at most once, although two   *)
(* threads of control carry results to it.                                 *)
(***************************************************************************)
AnnouncedOnce ==
  \A i, j \in DOMAIN announced : announced[i] = announced[j] => i = j

(***************************************************************************)
(* However the system came to pause, the phase machine makes at most the   *)
(* steps that were under way: one batch and one step of the ticker.        *)
(***************************************************************************)
PauseDrains == strays <= BatchLimit + 1

(***************************************************************************)
(* Every phase the software enters is announced to the hardware in the     *)
(* end, even if the system is paused meanwhile.                            *)
(***************************************************************************)
PhasesAreAnnounced ==
  \A p \in 1 .. PhaseLimit : decision = p ~> \E i \in DOMAIN announced : announced[i] = p
=============================================================================
