--------------------------- MODULE CameraSessions ---------------------------
(***************************************************************************)
(* Who may send the frames of a direction: the sessions, the connections   *)
(* and the pairings of the camera server, and the handlers of              *)
(* /ws/camera that change them.  Every handler runs on the asyncio loop;   *)
(* one that awaits the closing of a socket leaves the loop to the others,  *)
(* and its action here ends where it awaits.                               *)
(*                                                                         *)
(* A node is the identity that one pairing QR code gives to a camera, so   *)
(* it belongs to one direction and is paired once.  Session tokens are     *)
(* numbered in the order in which they are created.                        *)
(***************************************************************************)
EXTENDS Naturals

CONSTANTS
  Directions,    \* the approaches
  Nodes,         \* the identities that pairings give out
  DirectionOf,   \* the direction each of them is paired for
  Sockets,       \* the connections cameras may open
  NoNode, NoSocket,
  TokenLimit     \* bound of the model: sessions created

ASSUME SessionsAssumption ==
  /\ DirectionOf \in [Nodes -> Directions]
  /\ NoNode \notin Nodes
  /\ NoSocket \notin Sockets
  /\ TokenLimit \in Nat

VARIABLES
  sessions,      \* SessionManager.sessions: the token and whether it is unexpired
  connections,   \* ConnectionManager.active_connections
  pairing,       \* SessionManager.pairing_sessions
  paired,        \* the nodes that were given out
  created,       \* number of sessions created so far
  socket,        \* the endpoint coroutine of every socket
  expired        \* the expired nodes that the ticker is still to remove

sessionVars == <<sessions, connections, pairing, paired, created, socket, expired>>

Token == 1 .. TokenLimit
NoSession == [token |-> 0, live |-> FALSE]
Session == [token : Token, live : BOOLEAN]
Endpoint == [at : {"idle", "replacing", "leaving", "closed"}, node : Nodes \cup {NoNode},
             token : {0} \cup Token, byPairing : BOOLEAN]
NewEndpoint == [at |-> "idle", node |-> NoNode, token |-> 0, byPairing |-> FALSE]
ClosedEndpoint == [NewEndpoint EXCEPT !.at = "closed"]

SessionsTypeOK ==
  /\ sessions \in [Nodes -> Session \cup {NoSession}]
  /\ connections \in [Nodes -> Sockets \cup {NoSocket}]
  /\ pairing \in [Directions -> Nodes \cup {NoNode}]
  /\ paired \subseteq Nodes
  /\ created \in {0} \cup Token
  /\ socket \in [Sockets -> Endpoint]
  /\ expired \subseteq Nodes

SessionsInit ==
  /\ sessions = [n \in Nodes |-> NoSession]
  /\ connections = [n \in Nodes |-> NoSocket]
  /\ pairing = [d \in Directions |-> NoNode]
  /\ paired = {}
  /\ created = 0
  /\ socket = [s \in Sockets |-> NewEndpoint]
  /\ expired = {}

Live(n) == sessions[n].live

(* get_session_by_direction                                                *)
LiveNodes(d) == {n \in Nodes : Live(n) /\ DirectionOf[n] = d}

(* Mutant of Authorised: any unexpired session of the node will do.         *)
Authorised_ByNode(s, n, token) == sessions[n].live

(* validate_session and the ownership of the connection: what every        *)
(* message but a registration must pass.                                   *)
Authorised(s, n, token) ==
  /\ sessions[n].live /\ sessions[n].token = token
  /\ connections[n] = s

-----------------------------------------------------------------------------
(***************************************************************************)
(* Pairing: the dashboard makes a QR code, which replaces the direction's  *)
(* earlier one and is good for five minutes.                               *)
(***************************************************************************)
GeneratePairing(n) ==
  /\ n \notin paired
  /\ paired' = paired \cup {n}
  /\ pairing' = [pairing EXCEPT ![DirectionOf[n]] = n]
  /\ UNCHANGED <<sessions, connections, created, socket, expired>>

PairingExpires(d) ==
  /\ pairing[d] # NoNode
  /\ pairing' = [pairing EXCEPT ![d] = NoNode]
  /\ UNCHANGED <<sessions, connections, paired, created, socket, expired>>

-----------------------------------------------------------------------------
(***************************************************************************)
(* create_session: another node that holds the direction is evicted.       *)
(***************************************************************************)
(* Mutant of CreateSession: nobody is evicted.                             *)
CreateSession_NoEviction(n) ==
  /\ created < TokenLimit
  /\ created' = created + 1
  /\ sessions' = [sessions EXCEPT ![n] = [token |-> created', live |-> TRUE]]

CreateSession(n) ==
  /\ created < TokenLimit
  /\ created' = created + 1
  /\ sessions' = [m \in Nodes |->
       IF m = n THEN [token |-> created', live |-> TRUE]
       ELSE IF m \in LiveNodes(DirectionOf[n]) THEN NoSession
       ELSE sessions[m]]

(***************************************************************************)
(* The end of _handle_register_camera, after connect has waited for the    *)
(* socket it replaces: the connection, the session, the used pairing (of   *)
(* the direction, whichever it is by now) and the acknowledgement.         *)
(***************************************************************************)
CompleteRegistration(s, n, byPairing) ==
  /\ connections' = [connections EXCEPT ![n] = s]
  /\ CreateSession(n)
  /\ pairing' = IF byPairing THEN [pairing EXCEPT ![DirectionOf[n]] = NoNode] ELSE pairing
  /\ socket' = [socket EXCEPT ![s] = [at |-> "idle", node |-> n, token |-> created',
                                      byPairing |-> FALSE]]
  /\ UNCHANGED <<paired, expired>>

(* A registration needs the pairing of its direction or an unexpired       *)
(* session of its own, and a direction that no other node holds.  A node   *)
(* that is connected already is disconnected first.                        *)
Register(s, n) ==
  LET byPairing == pairing[DirectionOf[n]] = n
  IN  /\ socket[s].at = "idle" /\ socket[s].node \in {n, NoNode}
      /\ byPairing \/ Live(n)
      /\ LiveNodes(DirectionOf[n]) \subseteq {n}
      /\ \/ /\ connections[n] = NoSocket
            /\ CompleteRegistration(s, n, byPairing)
         \/ /\ connections[n] # NoSocket
            /\ connections' = [connections EXCEPT ![n] = NoSocket]
            /\ socket' = [socket EXCEPT ![s] = [at |-> "replacing", node |-> n, token |-> 0,
                                                byPairing |-> byPairing]]
            /\ UNCHANGED <<sessions, pairing, paired, created, expired>>

ReplacementDone(s) ==
  /\ socket[s].at = "replacing"
  /\ CompleteRegistration(s, socket[s].node, socket[s].byPairing)

-----------------------------------------------------------------------------
(***************************************************************************)
(* The end of a session or of a connection.                                *)
(***************************************************************************)
RemoveNode(n) ==
  /\ sessions' = [sessions EXCEPT ![n] = NoSession]
  /\ connections' = [connections EXCEPT ![n] = NoSocket]

(* No message for ten seconds.                                             *)
HeartbeatTimeout(n) ==
  /\ Live(n)
  /\ sessions' = [sessions EXCEPT ![n].live = FALSE]
  /\ UNCHANGED <<connections, pairing, paired, created, socket, expired>>

(* The camera says goodbye.                                                *)
DisconnectMessage(s) ==
  /\ socket[s].at = "idle" /\ socket[s].node # NoNode
  /\ Authorised(s, socket[s].node, socket[s].token)
  /\ RemoveNode(socket[s].node)
  /\ UNCHANGED <<pairing, paired, created, socket, expired>>

(* The socket is gone: receive raises, and the endpoint first closes the   *)
(* socket's video peer.                                                    *)
SocketLost(s) ==
  /\ socket[s].at = "idle"
  /\ socket' = [socket EXCEPT ![s] = IF socket[s].node = NoNode THEN ClosedEndpoint
                                     ELSE [socket[s] EXCEPT !.at = "leaving"]]
  /\ UNCHANGED <<sessions, connections, pairing, paired, created, expired>>

(* The session stays for a reconnect; a connection that a newer socket has *)
(* taken over stays too.                                                   *)
EndpointLeaves(s) ==
  /\ socket[s].at = "leaving"
  /\ connections' = [n \in Nodes |->
       IF n = socket[s].node /\ connections[n] = s THEN NoSocket ELSE connections[n]]
  /\ socket' = [socket EXCEPT ![s] = ClosedEndpoint]
  /\ UNCHANGED <<sessions, pairing, paired, created, expired>>

(* The ticker lists the expired nodes once, removes the first and removes  *)
(* the others after waiting for sockets to close.                          *)
ExpiredNodes == {n \in Nodes : sessions[n] # NoSession /\ ~Live(n)}

TickerSweeps ==
  /\ expired = {}
  /\ \E n \in ExpiredNodes :
       /\ RemoveNode(n)
       /\ expired' = ExpiredNodes \ {n}
  /\ UNCHANGED <<pairing, paired, created, socket>>

TickerSweepsNext(n) ==
  /\ n \in expired
  /\ RemoveNode(n)
  /\ expired' = expired \ {n}
  /\ UNCHANGED <<pairing, paired, created, socket>>

SessionsStep ==
  \/ \E n \in Nodes : GeneratePairing(n) \/ HeartbeatTimeout(n) \/ TickerSweepsNext(n)
  \/ \E d \in Directions : PairingExpires(d)
  \/ \E s \in Sockets, n \in Nodes : Register(s, n)
  \/ \E s \in Sockets : ReplacementDone(s) \/ DisconnectMessage(s) \/ SocketLost(s) \/ EndpointLeaves(s)
  \/ TickerSweeps

SessionsSpec == SessionsInit /\ [][SessionsStep]_sessionVars

-----------------------------------------------------------------------------
(***************************************************************************)
(* One camera per direction: at most one node of a direction has an        *)
(* unexpired session, however registrations, expiry and the waiting for    *)
(* replaced sockets interleave.                                            *)
(***************************************************************************)
OneCameraPerDirection ==
  \A d \in Directions : \A m, n \in LiveNodes(d) : m = n
=============================================================================
