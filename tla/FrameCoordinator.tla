-------------------------- MODULE FrameCoordinator --------------------------
(***************************************************************************)
(* The frames of the registered cameras: one slot per direction where the  *)
(* latest frame wins, batches that the worker thread decodes and analyses, *)
(* and the results that the coordinator publishes on the dashboard's feed. *)
(*                                                                         *)
(* A frame is reduced to the socket, the node and the session token that   *)
(* it came with, and a picture on the feed to the token of its session.    *)
(* That a paused system takes no frames is in SignalRuntime; here a frame  *)
(* that is not sent and one that is refused are the same.                  *)
(***************************************************************************)
EXTENDS CameraSessions, FiniteSets

CONSTANT FrameLimit     \* bound of the model: frames received

ASSUME FramesAssumption == IsFiniteSet(Directions) /\ FrameLimit \in Nat

VARIABLES
  slot,         \* latest_frames
  coordinator,  \* where run_coordinator is: waiting, computing or publishing
  batch,        \* the frames it has taken, or the results still to publish
  received,     \* stage counter
  settled,      \* the stage counters dropped, decode_failed and processed together
  feed,         \* frame_buffer: the token of the session whose picture it is, or 0
  clearing,     \* the directions of DISCONNECT commands that wait for a socket
  revoked       \* the tokens of the sessions an operator has disconnected

frameVars == <<slot, coordinator, batch, received, settled, feed, clearing, revoked>>
vars == <<sessionVars, frameVars>>

NoFrame == [socket |-> NoSocket, node |-> NoNode, token |-> 0]
Frame == [socket : Sockets, node : Nodes, token : Token]
Taken == {d \in Directions : batch[d] # NoFrame}

TypeOK ==
  /\ SessionsTypeOK
  /\ slot \in [Directions -> Frame \cup {NoFrame}]
  /\ coordinator \in {"waiting", "computing", "publishing"}
  /\ batch \in [Directions -> Frame \cup {NoFrame}]
  /\ received \in 0 .. FrameLimit
  /\ settled \in 0 .. FrameLimit
  /\ feed \in [Directions -> {0} \cup Token]
  /\ clearing \subseteq Directions
  /\ revoked \subseteq Token

NoFramesYet == [d \in Directions |-> NoFrame]

Init ==
  /\ SessionsInit
  /\ slot = NoFramesYet
  /\ coordinator = "waiting"
  /\ batch = NoFramesYet
  /\ received = 0 /\ settled = 0
  /\ feed = [d \in Directions |-> 0]
  /\ clearing = {}
  /\ revoked = {}

-----------------------------------------------------------------------------
(* _handle_video_frame: a frame that still waits is dropped for a newer    *)
(* one.  A message of a registered socket also renews its session, which   *)
(* HeartbeatTimeout leaves open.                                           *)
FrameArrives(s) ==
  LET n == socket[s].node
      d == DirectionOf[n]
  IN  /\ socket[s].at = "idle" /\ n # NoNode
      /\ Authorised(s, n, socket[s].token)
      /\ received < FrameLimit
      /\ received' = received + 1
      /\ settled' = IF slot[d] = NoFrame THEN settled ELSE settled + 1
      /\ slot' = [slot EXCEPT ![d] = [socket |-> s, node |-> n, token |-> socket[s].token]]
      /\ UNCHANGED <<sessionVars, coordinator, batch, feed, clearing, revoked>>

(* run_coordinator hands all waiting frames to the worker.                 *)
TakeBatch ==
  /\ coordinator = "waiting"
  /\ slot # NoFramesYet
  /\ batch' = slot
  /\ slot' = NoFramesYet
  /\ coordinator' = "computing"
  /\ UNCHANGED <<sessionVars, received, settled, feed, clearing, revoked>>

(* process_batch: a frame is dropped or cannot be decoded (both counted),  *)
(* turns stale during detection (counted nowhere) or yields a result.      *)
ProcessBatch ==
  /\ coordinator = "computing"
  /\ \E discarded, stale \in SUBSET Taken :
       /\ discarded \cap stale = {}
       /\ settled' = settled + Cardinality(discarded)
       /\ batch' = [d \in Directions |->
                     IF d \in discarded \cup stale THEN NoFrame ELSE batch[d]]
  /\ coordinator' = "publishing"
  /\ UNCHANGED <<sessionVars, slot, received, feed, clearing, revoked>>

(* The worker, or a later step of the publication, raises: what is left of *)
(* the batch is lost and counted nowhere.                                  *)
BatchFails ==
  /\ coordinator # "waiting"
  /\ coordinator' = "waiting"
  /\ batch' = NoFramesYet
  /\ UNCHANGED <<sessionVars, slot, received, settled, feed, clearing, revoked>>

(* Mutants of Publish: the owner is not asked again; a refused result is   *)
(* counted as dropped and as processed.                                    *)
Publish_Unchecked(d) ==
  /\ coordinator = "publishing" /\ d \in Taken
  /\ settled' = settled + 1
  /\ feed' = [feed EXCEPT ![d] = batch[d].token]
  /\ batch' = [batch EXCEPT ![d] = NoFrame]
  /\ UNCHANGED <<sessionVars, slot, coordinator, received, clearing, revoked>>

Publish_CountedTwice(d) ==
  /\ coordinator = "publishing" /\ d \in Taken
  /\ IF Authorised(batch[d].socket, batch[d].node, batch[d].token)
     THEN settled' = settled + 1 /\ feed' = [feed EXCEPT ![d] = batch[d].token]
     ELSE settled' = settled + 2 /\ UNCHANGED feed
  /\ batch' = [batch EXCEPT ![d] = NoFrame]
  /\ UNCHANGED <<sessionVars, slot, coordinator, received, clearing, revoked>>

(* A result is published if its session and its socket still own the       *)
(* direction and the system is running, and counted as dropped otherwise;  *)
(* sending the acknowledgement gives the loop to the others.               *)
Publish(d) ==
  /\ coordinator = "publishing" /\ d \in Taken
  /\ settled' = settled + 1
  /\ \/ /\ Authorised(batch[d].socket, batch[d].node, batch[d].token)
        /\ feed' = [feed EXCEPT ![d] = batch[d].token]
     \/ UNCHANGED feed
  /\ batch' = [batch EXCEPT ![d] = NoFrame]
  /\ UNCHANGED <<sessionVars, slot, coordinator, received, clearing, revoked>>

BatchDone ==
  /\ coordinator = "publishing" /\ Taken = {}
  /\ coordinator' = "waiting"
  /\ UNCHANGED <<sessionVars, slot, batch, received, settled, feed, clearing, revoked>>

-----------------------------------------------------------------------------
(* The operator disconnects a direction: the session goes, the socket is   *)
(* closed, and when that is done the feed is cleared.                      *)
Disconnect(d) ==
  /\ d \notin clearing
  /\ clearing' = clearing \cup {d}
  /\ \/ \E n \in LiveNodes(d) :
          /\ RemoveNode(n)
          /\ revoked' = revoked \cup {sessions[n].token}
     \/ LiveNodes(d) = {} /\ UNCHANGED <<sessions, connections, revoked>>
  /\ UNCHANGED <<pairing, paired, created, socket, expired, slot, coordinator, batch,
                 received, settled, feed>>

ClearFeed(d) ==
  /\ d \in clearing
  /\ clearing' = clearing \ {d}
  /\ feed' = [feed EXCEPT ![d] = 0]
  /\ UNCHANGED <<sessionVars, slot, coordinator, batch, received, settled, revoked>>

(* STOP and RESTART clear the whole feed.                                  *)
ClearFeeds ==
  /\ feed' = [d \in Directions |-> 0]
  /\ UNCHANGED <<sessionVars, slot, coordinator, batch, received, settled, clearing, revoked>>

FrameStep ==
  \/ \E s \in Sockets : FrameArrives(s)
  \/ TakeBatch \/ ProcessBatch \/ BatchFails \/ BatchDone \/ ClearFeeds
  \/ \E d \in Directions : Publish(d) \/ Disconnect(d) \/ ClearFeed(d)

Next == (SessionsStep /\ UNCHANGED frameVars) \/ FrameStep

Spec == Init /\ [][Next]_vars

-----------------------------------------------------------------------------
(***************************************************************************)
(* The feed never goes back to an earlier session: once a newer camera's   *)
(* picture is shown for a direction, a result that was computed for an     *)
(* earlier session of it cannot replace it.                                *)
(***************************************************************************)
FeedNeverGoesBack ==
  [][\A d \in Directions : feed'[d] # 0 => feed'[d] >= feed[d]]_vars

(***************************************************************************)
(* After an operator has disconnected a camera its picture is gone from    *)
(* the feed and stays away, although frames of it may still wait, be       *)
(* analysed or be published meanwhile.                                     *)
(***************************************************************************)
DisconnectedStaysGone ==
  \A d \in Directions \ clearing : feed[d] \notin revoked

(***************************************************************************)
(* No frame is counted twice: every received frame is dropped, failed or   *)
(* processed at most once, however slots, batches and owners change.       *)
(***************************************************************************)
Waiting == {d \in Directions : slot[d] # NoFrame}

NeverCountedTwice ==
  settled + Cardinality(Waiting) + Cardinality(Taken) <= received
=============================================================================
