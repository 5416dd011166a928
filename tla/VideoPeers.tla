------------------------------ MODULE VideoPeers ------------------------------
(***************************************************************************)
(* The WebRTC receivers of one camera node (server/webrtc_ingest.py): each *)
(* offer makes a peer with a task that receives frames and a task that     *)
(* samples them, and replaces the peer before it.  Peers are closed by the *)
(* offer that replaces them, by their own offer when it fails, by the end  *)
(* of their socket, and by deferred tasks.                                 *)
(*                                                                         *)
(* Peers are numbered in the order of their offers.  A registration stands *)
(* for a socket and the token given out on it; a new one always gets a new *)
(* token (CameraSessions).  The offer is checked to hold exactly one video *)
(* track, so a peer's track event comes once, in setRemoteDescription.     *)
(* The shutdown, which comes when every socket has ended, is left out.     *)
(***************************************************************************)
EXTENDS Naturals, FiniteSets

CONSTANTS
  MaxRegistrations,  \* bound of the model: registrations of the node
  MaxPeers           \* bound of the model: offers

ASSUME PeersAssumption == MaxRegistrations \in Nat \ {0} /\ MaxPeers \in Nat \ {0}

VARIABLES
  current,     \* the registration whose session and connection are valid, or 0
  streaming,   \* session.streaming and ctx.system_running
  socket,      \* the endpoint of each registration so far, in order
  owner,       \* the peer in self.peers, or 0
  peer,        \* the peers so far
  closing      \* how far each _close_peer of each peer is

peersVars == <<current, streaming, socket, owner, peer, closing>>

Registration == 1 .. MaxRegistrations
Peer == 1 .. MaxPeers
Closer == {"offer", "own", "socket", "scheduled"}

Task == {"none", "running", "converting", "cancelled", "ended"}
Negotiating == {"replacing", "remote", "local"}

PeerRecord ==
  [by : Registration,                                   \* token and websocket
   offer : Negotiating \cup {"failing", "done"},
   replaces : 0 .. MaxPeers,                            \* old
   receiver : Task \ {"converting"}, sampler : Task,
   listed : BOOLEAN,                                    \* whether tasks holds the two
   latest : BOOLEAN, ready : BOOLEAN,
   scheduled : BOOLEAN,                                 \* a cleanup task has yet to begin
   pc : {"open", "closed", "abandoned"}]

Offered == DOMAIN peer
Registered == DOMAIN socket

PeersTypeOK ==
  /\ current \in 0 .. MaxRegistrations
  /\ streaming \in BOOLEAN
  /\ \E n \in 0 .. MaxRegistrations : socket \in [1 .. n -> {"open", "closing", "gone"}]
  /\ owner \in 0 .. MaxPeers
  /\ \E n \in 0 .. MaxPeers : peer \in [1 .. n -> PeerRecord]
  /\ closing \in [Peer -> [Closer -> {"no", "gathering", "closing"}]]
  /\ current \in Registered \cup {0}
  /\ owner \in {0, Cardinality(Offered)}     \* self.peers holds the newest or none

PeersInit ==
  /\ current = 0 /\ streaming = FALSE
  /\ socket = [r \in {} |-> "open"]
  /\ owner = 0
  /\ peer = [p \in {} |-> 0]
  /\ closing = [p \in Peer |-> [c \in Closer |-> "no"]]

(* _session and _streaming.                                                *)
HasSession(p) == owner = p /\ current = peer[p].by
Streaming(p) == HasSession(p) /\ streaming

Running(p) == peer[p].receiver = "running" \/ peer[p].sampler \in {"running", "converting"}
TasksEnded(p) == {peer[p].receiver, peer[p].sampler} \subseteq {"none", "ended"}

(* The endpoint awaits process_message: it reads no further message.       *)
Busy(r) ==
  \E p \in Offered :
    /\ peer[p].by = r
    /\ peer[p].offer \in Negotiating \cup {"failing"} \/ closing[p]["socket"] # "no"

-----------------------------------------------------------------------------
(***************************************************************************)
(* _close_peer, up to its first await: the peer leaves self.peers, its     *)
(* tasks are cancelled (nobody waits for ready any more).  It waits for    *)
(* them if there are any, forgets them, and then waits for the connection  *)
(* to close.                                                               *)
(***************************************************************************)
Cancelled(task) == IF task \in {"running", "converting"} THEN "cancelled" ELSE task

CancelTasks(rec) ==
  [rec EXCEPT !.receiver = Cancelled(@), !.sampler = Cancelled(@),
              !.latest = @ /\ rec.listed, !.ready = FALSE]

(* Closing a closed connection returns at once.                            *)
Disconnecting(p) == IF peer[p].pc = "closed" THEN "no" ELSE "closing"

Closing(p, c) ==
  closing' = [closing EXCEPT ![p][c] = IF peer[p].listed THEN "gathering" ELSE Disconnecting(p)]

BeginClose(p, c, rec) ==
  /\ owner' = IF owner = p THEN 0 ELSE owner
  /\ peer' = [peer EXCEPT ![p] = CancelTasks(rec)]
  /\ Closing(p, c)

TasksGathered(p, c) ==
  /\ closing[p][c] = "gathering" /\ TasksEnded(p)
  /\ peer' = [peer EXCEPT ![p].listed = FALSE, ![p].latest = FALSE]
  /\ closing' = [closing EXCEPT ![p][c] = Disconnecting(p)]
  /\ UNCHANGED <<current, streaming, socket, owner>>

ConnectionClosed(p, c) ==
  /\ closing[p][c] = "closing"
  /\ peer' = [peer EXCEPT ![p].pc = "closed"]
  /\ closing' = [closing EXCEPT ![p][c] = "no"]
  /\ UNCHANGED <<current, streaming, socket, owner>>

(* The task of _schedule_close gets its turn.                              *)
CleanupBegins(p) ==
  /\ peer[p].scheduled
  /\ BeginClose(p, "scheduled", [peer[p] EXCEPT !.scheduled = FALSE])
  /\ UNCHANGED <<current, streaming, socket>>

-----------------------------------------------------------------------------
(***************************************************************************)
(* Sessions and sockets, as the camera protocol changes them.              *)
(***************************************************************************)
Register ==
  LET r == Cardinality(Registered) + 1 IN
  /\ r \in Registration
  /\ current' = r
  /\ streaming' \in BOOLEAN
  /\ socket' = [q \in 1 .. r |-> IF q = r THEN "open" ELSE socket[q]]
  /\ UNCHANGED <<owner, peer, closing>>

(* The session expires, or an operator disconnects the camera.             *)
SessionEnds ==
  /\ current # 0
  /\ current' = 0
  /\ UNCHANGED <<streaming, socket, owner, peer, closing>>

(* START_STREAM, STOP_STREAM, and STOP and START of the operator.          *)
SwitchStream ==
  /\ streaming' = ~streaming
  /\ UNCHANGED <<current, socket, owner, peer, closing>>

(* The socket is lost or has been closed, and camera_websocket_endpoint    *)
(* ends: rtc.close, then its connection is removed if it is the node's.    *)
SocketEnds(r) ==
  /\ socket[r] = "open" /\ ~Busy(r)
  /\ socket' = [socket EXCEPT ![r] = "closing"]
  /\ IF owner # 0 /\ peer[owner].by = r
     THEN BeginClose(owner, "socket", peer[owner])
     ELSE UNCHANGED <<owner, peer, closing>>
  /\ UNCHANGED <<current, streaming>>

SocketGone(r) ==
  /\ socket[r] = "closing" /\ ~Busy(r)
  /\ socket' = [socket EXCEPT ![r] = "gone"]
  /\ current' = IF current = r THEN 0 ELSE current
  /\ UNCHANGED <<streaming, owner, peer, closing>>

(* WEBRTC_STOP.                                                            *)
StopVideo(r) ==
  /\ socket[r] = "open" /\ current = r /\ ~Busy(r)
  /\ owner # 0 /\ peer[owner].by = r
  /\ BeginClose(owner, "socket", peer[owner])
  /\ UNCHANGED <<current, streaming, socket>>

-----------------------------------------------------------------------------
(***************************************************************************)
(* offer.                                                                  *)
(***************************************************************************)
NewPeer(r) ==
  [by |-> r, offer |-> IF owner = 0 THEN "remote" ELSE "replacing", replaces |-> owner,
   receiver |-> "none", sampler |-> "none", listed |-> FALSE, latest |-> FALSE, ready |-> FALSE,
   scheduled |-> FALSE, pc |-> "open"]

Offer(r) ==
  LET p == Cardinality(Offered) + 1 IN
  /\ p \in Peer
  /\ socket[r] = "open" /\ current = r /\ ~Busy(r)
  /\ owner' = p
  /\ peer' = [q \in 1 .. p |-> IF q = p THEN NewPeer(r)
                               ELSE IF q = owner THEN CancelTasks(peer[q]) ELSE peer[q]]
  /\ IF owner = 0 THEN UNCHANGED closing ELSE Closing(owner, "offer")
  /\ UNCHANGED <<current, streaming, socket>>

OfferBecomes(p, at) ==
  /\ peer' = [peer EXCEPT ![p].offer = at]
  /\ UNCHANGED <<owner, closing>>

OldClosed(p) ==
  /\ peer[p].offer = "replacing" /\ closing[peer[p].replaces]["offer"] = "no"
  /\ peer' = [peer EXCEPT ![p].offer = "remote", ![p].replaces = 0]
  /\ UNCHANGED <<owner, closing>>
  /\ UNCHANGED <<current, streaming, socket>>

(* on_track, in setRemoteDescription.                                      *)
Track(p) ==
  /\ peer[p].offer = "remote" /\ peer[p].receiver = "none"
  /\ peer' = [peer EXCEPT ![p].listed = TRUE, ![p].receiver = "running", ![p].sampler = "running"]
  /\ UNCHANGED <<current, streaming, socket, owner, closing>>

RemoteDescribed(p) ==
  /\ peer[p].offer = "remote" /\ peer[p].receiver # "none"
  /\ OfferBecomes(p, "local")
  /\ UNCHANGED <<current, streaming, socket>>

OfferFails(p) == BeginClose(p, "own", [peer[p] EXCEPT !.offer = "failing"])

(* Mutant of LocallyDescribed: the answer goes out without looking whether *)
(* the peer has been replaced meanwhile.                                   *)
LocallyDescribed_Unchecked(p) ==
  /\ peer[p].offer = "local"
  /\ OfferBecomes(p, "done")
  /\ UNCHANGED <<current, streaming, socket>>

LocallyDescribed(p) ==
  /\ peer[p].offer = "local"
  /\ IF HasSession(p) THEN OfferBecomes(p, "done") ELSE OfferFails(p)
  /\ UNCHANGED <<current, streaming, socket>>

(* A description is refused, or the ten seconds are over.                  *)
NegotiationFails(p) ==
  /\ peer[p].offer \in {"remote", "local"}
  /\ OfferFails(p)
  /\ UNCHANGED <<current, streaming, socket>>

(* Mutant of ReplacingTimesOut: the old peer is put back.                  *)
ReplacingTimesOut_PutsBack(p) ==
  LET old == peer[p].replaces IN
  /\ peer[p].offer = "replacing" /\ closing[old]["offer"] # "no"
  /\ owner' = IF owner = p THEN old ELSE owner
  /\ peer' = [peer EXCEPT ![p].offer = "failing", ![p].replaces = 0]
  /\ closing' = [closing EXCEPT ![p]["own"] = "closing", ![old]["offer"] = "no"]
  /\ UNCHANGED <<current, streaming, socket>>

(* The ten seconds end while the old peer closes: its closing is cancelled *)
(* and not taken up again.                                                 *)
ReplacingTimesOut(p) ==
  LET old == peer[p].replaces IN
  /\ peer[p].offer = "replacing" /\ closing[old]["offer"] # "no"
  /\ owner' = IF owner = p THEN 0 ELSE owner
  /\ peer' = [peer EXCEPT ![p].offer = "failing", ![p].replaces = 0,
                          ![old].pc = IF @ = "open" THEN "abandoned" ELSE @]
  /\ closing' = [closing EXCEPT ![p]["own"] = "closing", ![old]["offer"] = "no"]
  /\ UNCHANGED <<current, streaming, socket>>

FailureEnds(p) ==
  /\ peer[p].offer = "failing" /\ closing[p]["own"] = "no"
  /\ OfferBecomes(p, "done")
  /\ UNCHANGED <<current, streaming, socket>>

-----------------------------------------------------------------------------
(***************************************************************************)
(* _receive.                                                               *)
(***************************************************************************)
Change(p, rec) ==
  /\ peer' = [peer EXCEPT ![p] = rec]
  /\ UNCHANGED <<current, streaming, socket, owner, closing>>

(* The finally clause.                                                     *)
ReceiverEnds(p) ==
  Change(p, [peer[p] EXCEPT !.receiver = "ended", !.scheduled = @ \/ owner = p])

(* Mutant of Receive: the task just ends.                                  *)
Receive_EndsSilently(p) ==
  /\ peer[p].receiver = "running"
  /\ \/ ~HasSession(p) /\ Change(p, [peer[p] EXCEPT !.receiver = "ended"])
     \/ HasSession(p) /\ ~Streaming(p) /\ Change(p, [peer[p] EXCEPT !.latest = FALSE])
     \/ Streaming(p) /\ Change(p, [peer[p] EXCEPT !.latest = TRUE, !.ready = TRUE])

(* A frame.                                                                *)
Receive(p) ==
  /\ peer[p].receiver = "running"
  /\ \/ ~HasSession(p) /\ ReceiverEnds(p)
     \/ HasSession(p) /\ ~Streaming(p) /\ Change(p, [peer[p] EXCEPT !.latest = FALSE])
     \/ Streaming(p) /\ Change(p, [peer[p] EXCEPT !.latest = TRUE, !.ready = TRUE])

(* The track ends, or the task is cancelled.                               *)
TrackEnds(p) == peer[p].receiver \in {"running", "cancelled"} /\ ReceiverEnds(p)

(* on_state_change: the connection has failed.                             *)
ConnectionFails(p) ==
  /\ owner = p /\ ~peer[p].scheduled
  /\ Change(p, [peer[p] EXCEPT !.scheduled = TRUE])

-----------------------------------------------------------------------------
(***************************************************************************)
(* _sample: between the wait for ready and the taking of the frame it may  *)
(* sleep, between the taking and the submission a thread converts.         *)
(***************************************************************************)
(* Mutant of TakeFrame: ready is left for the end of the conversion.       *)
TakeFrame_ClearsLate(p) ==
  LET converts == peer[p].latest /\ Streaming(p) IN
  \/ /\ peer[p].sampler = "running" /\ peer[p].ready
     /\ Change(p, [peer[p] EXCEPT !.latest = FALSE, !.ready = converts,
                                  !.sampler = IF converts THEN "converting" ELSE "running"])
  \/ /\ peer[p].sampler = "converting"
     /\ Change(p, [peer[p] EXCEPT !.ready = FALSE, !.sampler = "running"])

TakeFrame(p) ==
  /\ peer[p].sampler = "running" /\ peer[p].ready
  /\ Change(p, [peer[p] EXCEPT !.latest = FALSE, !.ready = FALSE,
                               !.sampler = IF peer[p].latest /\ Streaming(p)
                                           THEN "converting" ELSE "running"])

(* The picture is submitted if the stream is still on (FrameCoordinator).  *)
Converted(p) ==
  /\ peer[p].sampler = "converting"
  /\ Change(p, [peer[p] EXCEPT !.sampler = "running"])

SamplerFails(p) ==
  /\ peer[p].sampler = "converting"
  /\ Change(p, [peer[p] EXCEPT !.sampler = "ended", !.scheduled = TRUE])

SamplerCancelled(p) ==
  /\ peer[p].sampler = "cancelled"
  /\ Change(p, [peer[p] EXCEPT !.sampler = "ended"])

-----------------------------------------------------------------------------
CloseStep(p) ==
  \/ CleanupBegins(p)
  \/ \E c \in Closer : TasksGathered(p, c) \/ ConnectionClosed(p, c)

OfferStep(p) ==
  OldClosed(p) \/ Track(p) \/ RemoteDescribed(p) \/ LocallyDescribed(p) \/ FailureEnds(p)

OfferFault(p) == NegotiationFails(p) \/ ReplacingTimesOut(p)

MediaStep(p) == Receive(p) \/ TrackEnds(p) \/ ConnectionFails(p)

SampleStep(p) == TakeFrame(p) \/ Converted(p) \/ SamplerFails(p) \/ SamplerCancelled(p)

SocketStep(r) == SocketEnds(r) \/ SocketGone(r) \/ StopVideo(r) \/ Offer(r)

PeersNext ==
  \/ Register \/ SessionEnds \/ SwitchStream
  \/ \E r \in Registered : SocketStep(r)
  \/ \E p \in Offered : CloseStep(p) \/ OfferStep(p) \/ OfferFault(p) \/ MediaStep(p) \/ SampleStep(p)

PeersSpec == PeersInit /\ [][PeersNext]_peersVars

(***************************************************************************)
(* Tasks of the event loop that are ready get their turn, an offer ends    *)
(* within its ten seconds, and aiortc closes a connection.  While a track  *)
(* is received, frames go on coming, or the track ends, or the connection  *)
(* fails for want of consent.                                              *)
(***************************************************************************)
Housekeeping(p) ==
  \/ CloseStep(p) \/ OfferStep(p) \/ OfferFault(p) \/ SamplerCancelled(p)
  \/ peer[p].receiver = "cancelled" /\ TrackEnds(p)

FairPeersSpec ==
  /\ PeersSpec
  /\ WF_peersVars(\E p \in Offered : Housekeeping(p))
  /\ \A p \in Peer : WF_peersVars(p \in Offered /\ peer[p].receiver = "running" /\ MediaStep(p))

-----------------------------------------------------------------------------
(***************************************************************************)
(* No task of a peer runs on that nobody would close: it is the node's     *)
(* peer, or its own offer is still under way and will look.                *)
(***************************************************************************)
NoOrphanTask ==
  \A p \in Offered : Running(p) => owner = p \/ peer[p].offer \in Negotiating

(***************************************************************************)
(* The hand-over between the two tasks loses no wake-up: while a frame     *)
(* waits for the sampler, ready is set, however frames, switches of the    *)
(* stream and conversions fall.                                            *)
(***************************************************************************)
WaitingFrameIsAnnounced ==
  \A p \in Offered : peer[p].latest /\ peer[p].sampler \in {"running", "converting"} => peer[p].ready

(***************************************************************************)
(* A peer whose camera registered anew, was disconnected or expired comes  *)
(* to its end: out of self.peers, no task left, its connection closed, or  *)
(* abandoned by an offer that timed out while it closed it.                *)
(***************************************************************************)
PeerEnds(p) ==
  p \in Offered /\ owner # p /\ TasksEnded(p) /\ peer[p].pc # "open"

PeersEndWithSession ==
  \A p \in Peer : (p \in Offered /\ current # peer[p].by) ~> PeerEnds(p)
=============================================================================
