---------------------------- MODULE CommandBridge ----------------------------
(***************************************************************************)
(* Commands of the operator in the deployment with two containers.  The    *)
(* REST backend publishes a command over Redis and polls for its answer    *)
(* (app-backend/app/services/redis_service.py); the camera server listens, *)
(* carries one command out after the other and writes the answer           *)
(* (websocket-server/app/services/redis_broadcaster.py).                   *)
(*                                                                         *)
(* Redis delivers a publication to a present subscriber only and keeps     *)
(* nothing for an absent one.  What a command does is the business of      *)
(* SignalRuntime.  The key of an answer lives 15 s and is polled at least  *)
(* every 2.1 s, so it does not expire under a client that waits for it.    *)
(***************************************************************************)
EXTENDS Naturals, Sequences, FiniteSets, SequencesExt

CONSTANTS
  Request,    \* the requests, each with a request_id of its own
  Polls,      \* polls of a client before it gives up (50 in the code)
  MaxFaults   \* bound of the model: so many things go wrong

Nobody == "nobody"

ASSUME BridgeAssumption ==
  /\ IsFiniteSet(Request) /\ Nobody \notin Request
  /\ Polls \in Nat \ {0} /\ MaxFaults \in Nat

VARIABLES
  client,      \* how publish_command stands, for each request
  polls,       \* how often the client has polled
  order,       \* its place among the publications, 0 before it has one
  backendUp,   \* is_connected of the backend
  serverUp,    \* is_connected of the camera server
  subscribed,  \* whether Redis delivers to the camera server
  inbox,       \* the publications its subscription still holds
  holding,     \* the request the listener works on, or Nobody
  result,      \* what its handler answered, "none" while it runs
  reply,       \* the key traffic:command:<request_id>
  runs,        \* how often the handler has run for the request
  faults       \* how often something has gone wrong

backendVars == <<client, polls, order, backendUp>>
serverVars == <<serverUp, subscribed, inbox, holding, result, reply, runs>>
vars == <<backendVars, serverVars, faults>>

Answer == {"SUCCESS", "ERROR"}
Outcome == {"idle", "waiting", "success", "rejected", "refused", "unacknowledged", "failed"}

TypeOK ==
  /\ client \in [Request -> Outcome]
  /\ polls \in [Request -> 0 .. Polls]
  /\ order \in [Request -> Nat]
  /\ backendUp \in BOOLEAN /\ serverUp \in BOOLEAN /\ subscribed \in BOOLEAN
  /\ inbox \in Seq(Request)
  /\ holding \in Request \cup {Nobody}
  /\ result \in Answer \cup {"none"}
  /\ reply \in [Request -> Answer \cup {"none"}]
  /\ runs \in [Request -> Nat]
  /\ faults \in 0 .. MaxFaults

(* The containers have started and neither has reached Redis yet.          *)
Init ==
  /\ client = [r \in Request |-> "idle"]
  /\ polls = [r \in Request |-> 0]
  /\ order = [r \in Request |-> 0]
  /\ backendUp = FALSE /\ serverUp = FALSE /\ subscribed = FALSE
  /\ inbox = <<>>
  /\ holding = Nobody /\ result = "none"
  /\ reply = [r \in Request |-> "none"]
  /\ runs = [r \in Request |-> 0]
  /\ faults = 0

Fault ==
  /\ faults < MaxFaults
  /\ faults' = faults + 1

-----------------------------------------------------------------------------
(***************************************************************************)
(* The backend.                                                            *)
(***************************************************************************)
Published == {q \in Request : order[q] > 0}

Becomes(r, outcome) == client' = [client EXCEPT ![r] = outcome]

Deliver(r) ==
  /\ inbox' = IF subscribed THEN Append(inbox, r) ELSE inbox
  /\ order' = [order EXCEPT ![r] = Cardinality(Published) + 1]

(***************************************************************************)
(* publish_command: refused without a connection or without a listener.    *)
(***************************************************************************)
Issue(r) ==
  /\ client[r] = "idle"
  /\ \/ ~backendUp /\ Becomes(r, "refused") /\ UNCHANGED <<inbox, order>>
     \/ backendUp /\ Deliver(r) /\ Becomes(r, IF subscribed THEN "waiting" ELSE "refused")
  /\ UNCHANGED <<polls, backendUp, serverUp, subscribed, holding, result, reply, runs, faults>>

(* The publication raises, before or after Redis has taken it.             *)
IssueFails(r) ==
  /\ client[r] = "idle" /\ backendUp
  /\ Fault
  /\ Becomes(r, "failed")
  /\ Deliver(r) \/ UNCHANGED <<inbox, order>>
  /\ UNCHANGED <<polls, backendUp, serverUp, subscribed, holding, result, reply, runs>>

(* One turn of the loop that polls for the answer.                         *)
Poll(r) ==
  /\ client[r] = "waiting"
  /\ IF reply[r] # "none"
     THEN /\ Becomes(r, IF reply[r] = "SUCCESS" THEN "success" ELSE "rejected")
          /\ UNCHANGED polls
     ELSE /\ polls' = [polls EXCEPT ![r] = @ + 1]
          /\ Becomes(r, IF polls[r] + 1 = Polls THEN "unacknowledged" ELSE "waiting")
  /\ UNCHANGED <<order, backendUp, serverVars, faults>>

PollFails(r) ==
  /\ client[r] = "waiting"
  /\ Fault
  /\ Becomes(r, "failed")
  /\ UNCHANGED <<polls, order, backendUp, serverVars>>

(* The loop that mirrors snapshots loses Redis, and finds it again.        *)
BackendFails ==
  /\ backendUp /\ Fault
  /\ backendUp' = FALSE
  /\ UNCHANGED <<client, polls, order, serverVars>>

BackendConnects ==
  /\ ~backendUp
  /\ backendUp' = TRUE
  /\ UNCHANGED <<client, polls, order, serverVars, faults>>

-----------------------------------------------------------------------------
(***************************************************************************)
(* The camera server: start_listener.                                      *)
(***************************************************************************)
ServerConnects ==
  /\ ~subscribed /\ ~serverUp
  /\ serverUp' = TRUE
  /\ UNCHANGED <<backendVars, subscribed, inbox, holding, result, reply, runs, faults>>

Subscribe ==
  /\ ~subscribed /\ serverUp
  /\ subscribed' = TRUE
  /\ inbox' = <<>>
  /\ UNCHANGED <<backendVars, serverUp, holding, result, reply, runs, faults>>

(* Mutant of Take: the listener looks for another message meanwhile, and   *)
(* the first one is overwritten.                                           *)
Take_Overwrites ==
  /\ subscribed /\ serverUp /\ holding = Nobody /\ inbox # <<>>
  /\ holding' = Last(inbox) /\ inbox' = <<>>
  /\ UNCHANGED <<backendVars, serverUp, subscribed, result, reply, runs, faults>>

(* Mutant of Take: the newest message first.                               *)
Take_NewestFirst ==
  /\ subscribed /\ serverUp /\ holding = Nobody /\ inbox # <<>>
  /\ holding' = Last(inbox) /\ inbox' = Front(inbox)
  /\ UNCHANGED <<backendVars, serverUp, subscribed, result, reply, runs, faults>>

Take ==
  /\ subscribed /\ serverUp /\ holding = Nobody /\ inbox # <<>>
  /\ holding' = Head(inbox) /\ inbox' = Tail(inbox)
  /\ UNCHANGED <<backendVars, serverUp, subscribed, result, reply, runs, faults>>

(* The handler runs to its end or raises, which is an answer as well.      *)
Apply ==
  /\ holding # Nobody /\ result = "none"
  /\ \/ result' = "SUCCESS" /\ runs' = [runs EXCEPT ![holding] = @ + 1]
     \/ result' = "ERROR" /\ UNCHANGED runs
  /\ UNCHANGED <<backendVars, serverUp, subscribed, inbox, holding, reply, faults>>

Answered ==
  /\ holding # Nobody /\ result # "none"
  /\ reply' = [reply EXCEPT ![holding] = result]
  /\ holding' = Nobody /\ result' = "none"
  /\ UNCHANGED <<backendVars, serverUp, subscribed, inbox, runs, faults>>

(* The subscription goes with what it holds; so does the work in hand.     *)
ListenerLeaves ==
  /\ serverUp' = FALSE /\ subscribed' = FALSE
  /\ inbox' = <<>>
  /\ holding' = Nobody /\ result' = "none"

(* Mutant of ListenerNotices: only once another message has come.          *)
ListenerNotices_WithMessage ==
  /\ subscribed /\ ~serverUp /\ holding = Nobody /\ inbox # <<>>
  /\ ListenerLeaves
  /\ UNCHANGED <<backendVars, reply, runs, faults>>

(* is_connected was cleared elsewhere: the loop ends and starts over.      *)
ListenerNotices ==
  /\ subscribed /\ ~serverUp /\ holding = Nobody
  /\ ListenerLeaves
  /\ UNCHANGED <<backendVars, reply, runs, faults>>

(* Mutant of ListenerFails: the command in hand is tried once more.        *)
ListenerFails_Retries ==
  /\ subscribed /\ Fault
  /\ serverUp' = FALSE /\ subscribed' = FALSE
  /\ inbox' = <<>> /\ result' = "none" /\ UNCHANGED holding
  /\ UNCHANGED <<backendVars, reply, runs>>

(* Reading a message or writing an answer raises; the answer may be        *)
(* written nevertheless.                                                   *)
ListenerFails ==
  /\ subscribed
  /\ holding = Nobody \/ result # "none"
  /\ Fault
  /\ ListenerLeaves
  /\ \/ UNCHANGED reply
     \/ holding # Nobody /\ reply' = [reply EXCEPT ![holding] = result]
  /\ UNCHANGED <<backendVars, runs>>

(* publish_telemetry or publish_camera_event fails in another task.        *)
TelemetryFails ==
  /\ serverUp /\ Fault
  /\ serverUp' = FALSE
  /\ UNCHANGED <<backendVars, subscribed, inbox, holding, result, reply, runs>>

(* The camera server ends and starts again, whatever it is doing.          *)
ServerRestarts ==
  /\ Fault
  /\ ListenerLeaves
  /\ UNCHANGED <<backendVars, reply, runs>>

-----------------------------------------------------------------------------
Listen == ServerConnects \/ Subscribe \/ Take \/ Apply \/ Answered \/ ListenerNotices

Next ==
  \/ \E r \in Request : Issue(r) \/ IssueFails(r) \/ Poll(r) \/ PollFails(r)
  \/ BackendFails \/ BackendConnects
  \/ Listen \/ ListenerFails \/ TelemetryFails \/ ServerRestarts

Spec == Init /\ [][Next]_vars

FairSpec == Spec /\ WF_vars(Listen) /\ \A r \in Request : WF_vars(Poll(r))

-----------------------------------------------------------------------------
(***************************************************************************)
(* The promise to the operator, for every order of the faults.             *)
(***************************************************************************)
Told(r) ==
  CASE client[r] \in {"idle", "waiting"} -> "nothing"
    [] client[r] = "success" -> "success"
    [] client[r] = "refused" -> "refused"
    [] OTHER -> "unknown"

Promise == INSTANCE CommandPromise WITH told <- [r \in Request |-> Told(r)]

ImplementsPromise == Promise!Spec

(***************************************************************************)
(* While nothing goes wrong no published command is lost: it waits, is     *)
(* being carried out, or has its answer.                                   *)
(***************************************************************************)
LostOnlyByFaults ==
  faults = 0 =>
    \A r \in Published :
      \/ client[r] = "refused"
      \/ r \in Range(inbox) \/ r = holding
      \/ reply[r] # "none"

(***************************************************************************)
(* An acknowledged command is not undone by an older one: no command runs  *)
(* after the success of one that was published later.                      *)
(***************************************************************************)
AcknowledgedIsLast ==
  [][\A r, q \in Request :
       runs'[r] # runs[r] /\ client[q] = "success" => order[q] < order[r]]_vars

(***************************************************************************)
(* When the faults are over the camera server listens again, and every     *)
(* client has its answer.                                                  *)
(***************************************************************************)
ListenerReturns == <>[](serverUp /\ subscribed) /\ <>[](\A r \in Request : client[r] # "waiting")
=============================================================================
