----------------------- MODULE FrameCoordinatorProofs -----------------------
(***************************************************************************)
(* Who owns a direction, and what the feed shows of it, for any number of  *)
(* directions, nodes, sockets, sessions and frames.                        *)
(***************************************************************************)
EXTENDS FrameCoordinator, FiniteSetTheorems, TLAPS

(* Sessions never have more tokens than were created, and unexpired        *)
(* sessions have different ones.                                           *)
TokensCreated == \A n \in Nodes : sessions[n].token <= created

TokensDiffer ==
  \A m, n \in Nodes : Live(m) /\ Live(n) /\ sessions[m].token = sessions[n].token => m = n

(* A registration that waits for the socket it replaces has a node.        *)
ReplacingNode == \A s \in Sockets : socket[s].at = "replacing" => socket[s].node # NoNode

SessionsInv ==
  /\ SessionsTypeOK /\ ReplacingNode
  /\ OneCameraPerDirection /\ TokensCreated /\ TokensDiffer

FramesType ==
  /\ slot \in [Directions -> Frame \cup {NoFrame}]
  /\ batch \in [Directions -> Frame \cup {NoFrame}]
  /\ feed \in [Directions -> {0} \cup Token]
  /\ clearing \subseteq Directions
  /\ revoked \subseteq Token

(* A frame waits, and is analysed, for the direction of its node.          *)
FramesAtHome ==
  \A d \in Directions :
    /\ slot[d] # NoFrame => DirectionOf[slot[d].node] = d
    /\ batch[d] # NoFrame => DirectionOf[batch[d].node] = d

(* Nothing refers to a session of the future.                              *)
NoFuture ==
  /\ \A d \in Directions : feed[d] <= created
  /\ \A t \in revoked : t <= created

(* An unexpired session is at least as new as its direction's picture, has *)
(* its picture on no other direction and is not revoked.                   *)
LiveIsNewest ==
  \A n \in Nodes : Live(n) =>
    /\ feed[DirectionOf[n]] <= sessions[n].token
    /\ sessions[n].token \notin revoked
    /\ \A d \in Directions : d # DirectionOf[n] => feed[d] # sessions[n].token

FeedInv ==
  /\ FramesType /\ FramesAtHome /\ NoFuture /\ LiveIsNewest /\ DisconnectedStaysGone

Inv == SessionsInv /\ FeedInv

(* What one step does to the sessions: an unexpired one was there before   *)
(* with its token, or its token is new.                                    *)
SessionsKept ==
  /\ created <= created'
  /\ \A n \in Nodes : Live(n)' =>
       \/ Live(n) /\ sessions'[n].token = sessions[n].token
       \/ sessions'[n].token > created

-----------------------------------------------------------------------------
(* A new session evicts the other one of its direction.                    *)
LEMMA CreateSessionKeeps ==
  ASSUME SessionsInv, NEW n \in Nodes, CreateSession(n)
  PROVE  /\ sessions' \in [Nodes -> Session \cup {NoSession}]
         /\ created' \in {0} \cup Token
         /\ created' \in Token
         /\ OneCameraPerDirection' /\ TokensCreated' /\ TokensDiffer'
         /\ SessionsKept
<1> USE SessionsAssumption
<1>1. created \in Nat /\ created' = created + 1 /\ created' \in Token
  BY DEF SessionsInv, SessionsTypeOK, CreateSession, Token
<1>2. ASSUME NEW m \in Nodes
      PROVE  \/ m = n /\ sessions'[m] = [token |-> created', live |-> TRUE]
             \/ m # n /\ m \in LiveNodes(DirectionOf[n]) /\ sessions'[m] = NoSession
             \/ m # n /\ m \notin LiveNodes(DirectionOf[n]) /\ sessions'[m] = sessions[m]
  BY DEF CreateSession
<1>3. \A m \in Nodes : sessions[m] \in Session \cup {NoSession} /\ sessions[m].token \in Nat
  BY DEF SessionsInv, SessionsTypeOK, Session, NoSession, Token
<1>4. sessions' \in [Nodes -> Session \cup {NoSession}]
  <2>1. [token |-> created', live |-> TRUE] \in Session
    BY <1>1 DEF Session
  <2>2. \A m \in Nodes : sessions'[m] \in Session \cup {NoSession}
    BY <1>2, <1>3, <2>1
  <2>3. sessions' = [m \in Nodes |-> sessions'[m]]
    BY DEF CreateSession
  <2> QED BY <2>2, <2>3
<1>5. TokensCreated'
  BY <1>1, <1>2, <1>3 DEF SessionsInv, TokensCreated, NoSession
<1>6. ASSUME NEW m \in Nodes, Live(m)'
      PROVE  \/ m = n /\ sessions'[m].token = created'
             \/ /\ m # n /\ Live(m) /\ DirectionOf[m] # DirectionOf[n]
                /\ sessions'[m] = sessions[m]
  BY <1>2, <1>6 DEF Live, LiveNodes, NoSession
<1>7. OneCameraPerDirection'
  BY <1>6 DEF SessionsInv, OneCameraPerDirection, LiveNodes
<1>8. TokensDiffer'
  BY <1>1, <1>3, <1>6 DEF SessionsInv, TokensDiffer, TokensCreated
<1>9. SessionsKept
  BY <1>1, <1>6 DEF SessionsKept
<1> QED BY <1>1, <1>4, <1>5, <1>7, <1>8, <1>9

(* Sessions that only end or expire.                                       *)
Shrinks ==
  /\ UNCHANGED created
  /\ sessions' \in [Nodes -> Session \cup {NoSession}]
  /\ \A n \in Nodes :
       /\ sessions'[n].live => sessions'[n] = sessions[n]
       /\ sessions'[n].token \in {0, sessions[n].token}

LEMMA ShrinkingKeeps ==
  ASSUME SessionsInv, Shrinks
  PROVE  OneCameraPerDirection' /\ TokensCreated' /\ TokensDiffer' /\ SessionsKept
<1>1. created \in Nat /\ \A n \in Nodes : sessions[n].token \in Nat
  BY SessionsAssumption DEF SessionsInv, SessionsTypeOK, Session, NoSession, Token
<1>2. \A n \in Nodes : Live(n)' => Live(n) /\ sessions'[n] = sessions[n]
  BY DEF Shrinks, Live
<1>3. OneCameraPerDirection'
  BY <1>2 DEF SessionsInv, OneCameraPerDirection, LiveNodes
<1>4. TokensCreated'
  BY <1>1 DEF SessionsInv, TokensCreated, Shrinks
<1>5. TokensDiffer'
  BY <1>2 DEF SessionsInv, TokensDiffer
<1>6. SessionsKept
  BY <1>1, <1>2 DEF SessionsKept, Shrinks
<1> QED BY <1>3, <1>4, <1>5, <1>6

LEMMA RemovalShrinks ==
  ASSUME SessionsInv, NEW n \in Nodes, RemoveNode(n), UNCHANGED created
  PROVE  /\ Shrinks
         /\ connections' \in [Nodes -> Sockets \cup {NoSocket}]
BY DEF SessionsInv, SessionsTypeOK, RemoveNode, Shrinks, NoSession

LEMMA UnchangedShrinks ==
  ASSUME SessionsInv, UNCHANGED <<sessions, created>>
  PROVE  Shrinks
BY DEF SessionsInv, SessionsTypeOK, Shrinks

-----------------------------------------------------------------------------
(* A registration that completes, at once or after the socket it replaces  *)
(* is closed.                                                              *)
LEMMA RegistrationKeeps ==
  ASSUME SessionsInv, NEW s \in Sockets, NEW n \in Nodes, NEW b \in BOOLEAN,
         CompleteRegistration(s, n, b)
  PROVE  SessionsInv' /\ SessionsKept
<1>1. CreateSession(n)
  BY DEF CompleteRegistration
<1>2. DirectionOf[n] \in Directions
  BY SessionsAssumption
<1>3. created' \in Token
  BY <1>1, CreateSessionKeeps
<1>4. connections' \in [Nodes -> Sockets \cup {NoSocket}]
  BY DEF SessionsInv, SessionsTypeOK, CompleteRegistration
<1>5. pairing' \in [Directions -> Nodes \cup {NoNode}]
  BY <1>2 DEF SessionsInv, SessionsTypeOK, CompleteRegistration
<1>6. socket' \in [Sockets -> Endpoint]
  <2>1. [at |-> "idle", node |-> n, token |-> created', byPairing |-> FALSE] \in Endpoint
    BY <1>3 DEF Endpoint
  <2> QED BY <2>1 DEF SessionsInv, SessionsTypeOK, CompleteRegistration
<1>7. ReplacingNode'
  BY DEF SessionsInv, SessionsTypeOK, ReplacingNode, CompleteRegistration
<1>8. paired' \subseteq Nodes /\ expired' \subseteq Nodes
  BY DEF SessionsInv, SessionsTypeOK, CompleteRegistration
<1> QED BY <1>1, <1>4, <1>5, <1>6, <1>7, <1>8, CreateSessionKeeps DEF SessionsInv, SessionsTypeOK

(* A step that ends sessions, or leaves them alone, and keeps the types of *)
(* the other variables.                                                    *)
OthersType ==
  /\ connections \in [Nodes -> Sockets \cup {NoSocket}]
  /\ pairing \in [Directions -> Nodes \cup {NoNode}]
  /\ paired \subseteq Nodes
  /\ socket \in [Sockets -> Endpoint] /\ ReplacingNode
  /\ expired \subseteq Nodes

LEMMA ShrinkingStep ==
  ASSUME SessionsInv, Shrinks, OthersType'
  PROVE  SessionsInv' /\ SessionsKept
BY ShrinkingKeeps DEF SessionsInv, SessionsTypeOK, OthersType, Shrinks

LEMMA SessionsStepKeeps ==
  ASSUME SessionsInv, SessionsStep
  PROVE  SessionsInv' /\ SessionsKept
<1> USE SessionsAssumption
<1> OthersType
  BY DEF SessionsInv, SessionsTypeOK, OthersType
<1>1. ASSUME NEW n \in Nodes, GeneratePairing(n)
      PROVE  SessionsInv' /\ SessionsKept
  <2>1. OthersType'
    BY <1>1 DEF OthersType, ReplacingNode, GeneratePairing
  <2> QED BY <1>1, <2>1, UnchangedShrinks, ShrinkingStep DEF GeneratePairing
<1>2. ASSUME NEW n \in Nodes, HeartbeatTimeout(n)
      PROVE  SessionsInv' /\ SessionsKept
  <2>1. OthersType'
    BY <1>2 DEF OthersType, ReplacingNode, HeartbeatTimeout
  <2>2. sessions \in [Nodes -> Session \cup {NoSession}] /\ sessions[n] \in Session
    BY <1>2 DEF SessionsInv, SessionsTypeOK, HeartbeatTimeout, Live, NoSession
  <2>3. /\ sessions' \in [Nodes -> Session \cup {NoSession}]
        /\ sessions'[n].token = sessions[n].token /\ ~sessions'[n].live
        /\ \A m \in Nodes \ {n} : sessions'[m] = sessions[m]
    BY <1>2, <2>2 DEF HeartbeatTimeout, Session
  <2>4. Shrinks
    BY <1>2, <2>3 DEF Shrinks, HeartbeatTimeout
  <2> QED BY <2>1, <2>4, ShrinkingStep
<1>3. ASSUME NEW n \in Nodes, TickerSweepsNext(n)
      PROVE  SessionsInv' /\ SessionsKept
  <2>1. Shrinks /\ connections' \in [Nodes -> Sockets \cup {NoSocket}]
    BY <1>3, RemovalShrinks DEF TickerSweepsNext
  <2>2. OthersType'
    BY <1>3, <2>1 DEF OthersType, ReplacingNode, TickerSweepsNext
  <2> QED BY <2>1, <2>2, ShrinkingStep
<1>4. ASSUME NEW d \in Directions, PairingExpires(d)
      PROVE  SessionsInv' /\ SessionsKept
  <2>1. OthersType'
    BY <1>4 DEF OthersType, ReplacingNode, PairingExpires
  <2> QED BY <1>4, <2>1, UnchangedShrinks, ShrinkingStep DEF PairingExpires
<1>5. ASSUME NEW s \in Sockets, NEW n \in Nodes, Register(s, n)
      PROVE  SessionsInv' /\ SessionsKept
  <2> DEFINE b == pairing[DirectionOf[n]] = n
  <2>1. CASE CompleteRegistration(s, n, b)
    BY <2>1, RegistrationKeeps
  <2>2. CASE ~CompleteRegistration(s, n, b)
    <3> DEFINE waiting == [at |-> "replacing", node |-> n, token |-> 0, byPairing |-> b]
    <3>1. /\ connections' = [connections EXCEPT ![n] = NoSocket]
          /\ socket' = [socket EXCEPT ![s] = waiting]
          /\ UNCHANGED <<sessions, pairing, paired, created, expired>>
      BY <1>5, <2>2 DEF Register
    <3>2. waiting \in Endpoint
      BY DEF Endpoint
    <3>3. waiting.node # NoNode
      OBVIOUS
    <3>4. OthersType'
      <4> HIDE DEF waiting
      <4> QED BY <3>1, <3>2, <3>3 DEF OthersType, ReplacingNode
    <3> QED BY <3>1, <3>4, UnchangedShrinks, ShrinkingStep
  <2> QED BY <2>1, <2>2
<1>6. ASSUME NEW s \in Sockets, ReplacementDone(s)
      PROVE  SessionsInv' /\ SessionsKept
  <2>1. socket[s].node \in Nodes /\ socket[s].byPairing \in BOOLEAN
    BY <1>6 DEF OthersType, ReplacingNode, ReplacementDone, Endpoint
  <2> QED BY <1>6, <2>1, RegistrationKeeps DEF ReplacementDone
<1>7. ASSUME NEW s \in Sockets, DisconnectMessage(s)
      PROVE  SessionsInv' /\ SessionsKept
  <2>1. socket[s].node \in Nodes
    BY <1>7 DEF OthersType, Endpoint, DisconnectMessage
  <2>2. Shrinks /\ connections' \in [Nodes -> Sockets \cup {NoSocket}]
    BY <1>7, <2>1, RemovalShrinks DEF DisconnectMessage
  <2>3. OthersType'
    BY <1>7, <2>2 DEF OthersType, ReplacingNode, DisconnectMessage
  <2> QED BY <2>2, <2>3, ShrinkingStep
<1>8. ASSUME NEW s \in Sockets, SocketLost(s)
      PROVE  SessionsInv' /\ SessionsKept
  <2>1. socket' \in [Sockets -> Endpoint]
    BY <1>8 DEF OthersType, Endpoint, SocketLost, ClosedEndpoint, NewEndpoint
  <2>2. OthersType'
    BY <1>8, <2>1 DEF OthersType, ReplacingNode, SocketLost, ClosedEndpoint, NewEndpoint
  <2> QED BY <1>8, <2>2, UnchangedShrinks, ShrinkingStep DEF SocketLost
<1>9. ASSUME NEW s \in Sockets, EndpointLeaves(s)
      PROVE  SessionsInv' /\ SessionsKept
  <2>1. ClosedEndpoint \in Endpoint
    BY DEF Endpoint, ClosedEndpoint, NewEndpoint
  <2>2. OthersType'
    BY <1>9, <2>1 DEF OthersType, ReplacingNode, EndpointLeaves, ClosedEndpoint, NewEndpoint
  <2> QED BY <1>9, <2>2, UnchangedShrinks, ShrinkingStep DEF EndpointLeaves
<1>10. ASSUME TickerSweeps
       PROVE  SessionsInv' /\ SessionsKept
  <2>1. PICK n \in ExpiredNodes : RemoveNode(n) /\ expired' = ExpiredNodes \ {n}
    BY <1>10 DEF TickerSweeps
  <2>2. n \in Nodes /\ expired' \subseteq Nodes
    BY <2>1 DEF ExpiredNodes
  <2>3. Shrinks /\ connections' \in [Nodes -> Sockets \cup {NoSocket}]
    BY <1>10, <2>1, <2>2, RemovalShrinks DEF TickerSweeps
  <2>4. OthersType'
    BY <1>10, <2>2, <2>3 DEF OthersType, ReplacingNode, TickerSweeps
  <2> QED BY <2>3, <2>4, ShrinkingStep
<1> QED
  BY <1>1, <1>2, <1>3, <1>4, <1>5, <1>6, <1>7, <1>8, <1>9, <1>10 DEF SessionsStep

-----------------------------------------------------------------------------
(* What the sessions do leaves the feed right, because a session created   *)
(* now is newer than everything it shows.                                  *)
LEMMA SessionsKeepFeed ==
  ASSUME SessionsInv, SessionsInv', SessionsKept, FeedInv, UNCHANGED frameVars
  PROVE  FeedInv'
<1>1. FramesType' /\ FramesAtHome' /\ DisconnectedStaysGone'
  BY DEF FeedInv, FramesType, FramesAtHome, DisconnectedStaysGone, frameVars
<1>2. /\ created \in Nat /\ created' \in Nat /\ created <= created'
      /\ \A d \in Directions : feed[d] \in Nat
      /\ \A t \in revoked : t \in Nat
      /\ UNCHANGED <<feed, revoked>>
  BY SessionsAssumption
  DEF SessionsInv, SessionsTypeOK, SessionsKept, FeedInv, FramesType, Token, frameVars
<1>3. NoFuture'
  BY <1>2 DEF FeedInv, NoFuture
<1>4. ASSUME NEW n \in Nodes, Live(n)'
      PROVE  /\ feed'[DirectionOf[n]] <= sessions'[n].token
             /\ sessions'[n].token \notin revoked'
             /\ \A d \in Directions :
                  d # DirectionOf[n] => feed'[d] # sessions'[n].token
  <2> DirectionOf[n] \in Directions /\ sessions'[n].token \in Nat
    BY SessionsAssumption DEF SessionsInv, SessionsTypeOK, Session, NoSession, Token
  <2>1. CASE Live(n) /\ sessions'[n].token = sessions[n].token
    BY <1>2, <2>1 DEF FeedInv, LiveIsNewest
  <2>2. CASE sessions'[n].token > created
    BY <1>2, <2>2 DEF FeedInv, NoFuture
  <2> QED BY <1>4, <2>1, <2>2 DEF SessionsKept
<1>5. LiveIsNewest'
  BY <1>4 DEF LiveIsNewest
<1> QED BY <1>1, <1>3, <1>5 DEF FeedInv

(* A step that shows no new picture and leaves the sessions alone.         *)
LEMMA FeedKept ==
  ASSUME Inv, UNCHANGED sessionVars, FramesType', FramesAtHome', UNCHANGED revoked,
         \A d \in clearing \ clearing' : feed'[d] = 0,
         \A d \in Directions : feed'[d] \in {0, feed[d]}
  PROVE  SessionsInv' /\ FeedInv'
<1>1. SessionsInv'
  BY DEF Inv, SessionsInv, SessionsTypeOK, ReplacingNode, OneCameraPerDirection, LiveNodes,
         Live, TokensCreated, TokensDiffer, sessionVars
<1>2. /\ created \in Nat /\ UNCHANGED <<created, sessions>>
      /\ \A d \in Directions : feed[d] \in Nat
      /\ \A n \in Nodes : sessions[n].token \in Nat /\ DirectionOf[n] \in Directions
      /\ \A n \in Nodes : Live(n) => sessions[n].token # 0
      /\ 0 \notin revoked
  BY SessionsAssumption DEF Inv, SessionsInv, SessionsTypeOK, FeedInv, FramesType, Session,
                            NoSession, Token, Live, sessionVars
<1>3. NoFuture'
  BY <1>2 DEF Inv, FeedInv, NoFuture
<1>4. LiveIsNewest'
  BY <1>2 DEF Inv, FeedInv, LiveIsNewest, Live
<1>5. DisconnectedStaysGone'
  BY <1>2 DEF Inv, FeedInv, DisconnectedStaysGone
<1> QED BY <1>1, <1>3, <1>4, <1>5 DEF FeedInv

(* The picture of an authorised result is of the direction's session, the  *)
(* newest there is, so it may replace any other.                           *)
LEMMA PublishKeeps ==
  ASSUME Inv, NEW d \in Directions, Publish(d)
  PROVE  SessionsInv' /\ FeedInv' /\ (feed'[d] # 0 => feed'[d] >= feed[d])
<1>1. /\ UNCHANGED sessionVars /\ UNCHANGED <<clearing, revoked, slot, created, sessions>>
      /\ batch[d] # NoFrame /\ batch' = [batch EXCEPT ![d] = NoFrame]
  BY DEF Publish, Taken, sessionVars
<1>2. FramesAtHome'
  BY <1>1 DEF Inv, FeedInv, FramesType, FramesAtHome
<1>3. CASE UNCHANGED feed
  <2>1. FramesType'
    BY <1>1, <1>3 DEF Inv, FeedInv, FramesType
  <2>2. feed[d] \in Nat
    BY SessionsAssumption DEF Inv, FeedInv, FramesType, Token
  <2> QED BY <1>1, <1>2, <1>3, <2>1, <2>2, FeedKept
<1>4. CASE /\ Authorised(batch[d].socket, batch[d].node, batch[d].token)
           /\ feed' = [feed EXCEPT ![d] = batch[d].token]
  <2> DEFINE n == batch[d].node
             t == batch[d].token
  <2>1. /\ n \in Nodes /\ t \in Token /\ DirectionOf[n] = d
        /\ Live(n) /\ sessions[n].token = t
    BY <1>1, <1>4 DEF Inv, FeedInv, FramesType, FramesAtHome, Frame, Authorised, Live
  <2>2. /\ t \in Nat /\ t <= created /\ t \notin revoked /\ feed[d] <= t
        /\ \A m \in Nodes : Live(m) /\ sessions[m].token = t => m = n
        /\ \A m \in LiveNodes(d) : m = n
    BY <2>1, SessionsAssumption
    DEF Inv, SessionsInv, TokensCreated, TokensDiffer, OneCameraPerDirection, LiveNodes,
        FeedInv, LiveIsNewest, Token
  <2> HIDE DEF n, t
  <2>3. feed' = [feed EXCEPT ![d] = t] /\ feed \in [Directions -> {0} \cup Token]
    BY <1>4 DEF Inv, FeedInv, FramesType, t
  <2>4. feed'[d] = t /\ \A e \in Directions \ {d} : feed'[e] = feed[e]
    BY <2>3
  <2>5. FramesType'
    BY <1>1, <2>1, <2>3 DEF Inv, FeedInv, FramesType
  <2>6. SessionsInv'
    BY <1>1 DEF Inv, SessionsInv, SessionsTypeOK, ReplacingNode, OneCameraPerDirection,
                LiveNodes, Live, TokensCreated, TokensDiffer, sessionVars
  <2>7. NoFuture'
    BY <1>1, <2>2, <2>4 DEF Inv, FeedInv, NoFuture
  <2>8. ASSUME NEW m \in Nodes, Live(m)
        PROVE  /\ feed'[DirectionOf[m]] <= sessions[m].token
               /\ sessions[m].token \notin revoked
               /\ \A e \in Directions : e # DirectionOf[m] => feed'[e] # sessions[m].token
    <3>1. DirectionOf[m] \in Directions
      BY SessionsAssumption
    <3>2. CASE m = n
      BY <2>1, <2>2, <2>4, <2>8, <3>2 DEF Inv, FeedInv, LiveIsNewest
    <3>3. CASE m # n
      BY <2>1, <2>2, <2>4, <2>8, <3>1, <3>3 DEF Inv, FeedInv, LiveIsNewest, LiveNodes
    <3> QED BY <3>2, <3>3
  <2>9. LiveIsNewest'
    BY <1>1, <2>8 DEF LiveIsNewest, Live
  <2>10. DisconnectedStaysGone'
    BY <1>1, <2>2, <2>4 DEF Inv, FeedInv, DisconnectedStaysGone
  <2>11. feed'[d] >= feed[d]
    BY <2>2, <2>3, <2>4, SessionsAssumption DEF Token
  <2> QED BY <1>2, <2>5, <2>6, <2>7, <2>9, <2>10, <2>11 DEF FeedInv
<1> QED BY <1>3, <1>4 DEF Publish

(* A session that an operator disconnects is shown by no other direction,  *)
(* and its own waits to be cleared.                                        *)
LEMMA DisconnectKeeps ==
  ASSUME Inv, NEW d \in Directions, Disconnect(d)
  PROVE  SessionsInv' /\ FeedInv' /\ UNCHANGED feed
<1> USE SessionsAssumption
<1>1. /\ clearing' = clearing \cup {d}
      /\ UNCHANGED <<pairing, paired, created, socket, expired, slot, coordinator, batch,
                     received, settled, feed>>
  BY DEF Disconnect
<1>2. CASE UNCHANGED <<sessions, connections, revoked>>
  <2>1. UNCHANGED sessionVars
    BY <1>1, <1>2 DEF sessionVars
  <2>2. FramesType' /\ FramesAtHome'
    BY <1>1, <1>2 DEF Inv, FeedInv, FramesType, FramesAtHome
  <2> QED BY <1>1, <1>2, <2>1, <2>2, FeedKept
<1>3. ASSUME NEW n \in LiveNodes(d), RemoveNode(n),
             revoked' = revoked \cup {sessions[n].token}
      PROVE  SessionsInv' /\ FeedInv'
  <2>1. n \in Nodes /\ Live(n) /\ DirectionOf[n] = d
    BY <1>3 DEF LiveNodes
  <2>2. Shrinks /\ connections' \in [Nodes -> Sockets \cup {NoSocket}]
    BY <1>1, <1>3, <2>1, RemovalShrinks DEF Inv
  <2>3. OthersType'
    BY <1>1, <2>2 DEF Inv, SessionsInv, SessionsTypeOK, ReplacingNode, OthersType
  <2>4. SessionsInv'
    BY <2>2, <2>3, ShrinkingStep DEF Inv
  <2>5. \A m \in Nodes : Live(m)' => m # n /\ Live(m) /\ sessions'[m] = sessions[m]
    BY <1>3, <2>1 DEF RemoveNode, Live, NoSession, Inv, SessionsInv, SessionsTypeOK
  <2>6. sessions[n].token \in Token
    BY <2>1 DEF Inv, SessionsInv, SessionsTypeOK, Live, Session, NoSession
  <2>7. FramesType' /\ FramesAtHome'
    BY <1>1, <1>3, <2>6 DEF Inv, FeedInv, FramesType, FramesAtHome
  <2>8. NoFuture'
    BY <1>1, <1>3, <2>1 DEF Inv, SessionsInv, TokensCreated, FeedInv, NoFuture
  <2>9. LiveIsNewest'
    BY <1>1, <1>3, <2>1, <2>5 DEF Inv, SessionsInv, TokensDiffer, FeedInv, LiveIsNewest
  <2>10. DisconnectedStaysGone'
    BY <1>1, <1>3, <2>1 DEF Inv, FeedInv, LiveIsNewest, DisconnectedStaysGone
  <2> QED BY <2>4, <2>7, <2>8, <2>9, <2>10 DEF FeedInv
<1> QED BY <1>1, <1>2, <1>3 DEF Disconnect

(* The other steps of the frames.                                          *)
LEMMA FrameStepKeeps ==
  ASSUME Inv, FrameStep
  PROVE  /\ SessionsInv' /\ FeedInv'
         /\ \A d \in Directions : feed'[d] # 0 => feed'[d] >= feed[d]
<1>1. FramesType /\ FramesAtHome /\ SessionsTypeOK /\ \A d \in Directions : feed[d] \in Nat
  BY SessionsAssumption DEF Inv, SessionsInv, FeedInv, FramesType, Token
<1>2. ASSUME UNCHANGED sessionVars, FramesType', FramesAtHome', UNCHANGED <<feed, revoked>>,
             UNCHANGED clearing
      PROVE  /\ SessionsInv' /\ FeedInv'
             /\ \A d \in Directions : feed'[d] # 0 => feed'[d] >= feed[d]
  BY <1>1, <1>2, FeedKept
<1>3. ASSUME UNCHANGED sessionVars, UNCHANGED <<slot, batch, revoked>>,
             FramesType', \A d \in clearing \ clearing' : feed'[d] = 0,
             \A d \in Directions : feed'[d] \in {0, feed[d]}
      PROVE  /\ SessionsInv' /\ FeedInv'
             /\ \A d \in Directions : feed'[d] # 0 => feed'[d] >= feed[d]
  <2>1. FramesAtHome'
    BY <1>1, <1>3 DEF FramesAtHome
  <2> QED BY <1>1, <1>3, <2>1, FeedKept
<1>4. ASSUME NEW s \in Sockets, FrameArrives(s)
      PROVE  FramesType' /\ FramesAtHome'
  <2> DEFINE n == socket[s].node
             frame == [socket |-> s, node |-> n, token |-> socket[s].token]
  <2>1. n \in Nodes /\ DirectionOf[n] \in Directions
    BY <1>1, <1>4, SessionsAssumption DEF SessionsTypeOK, Endpoint, FrameArrives
  <2>2. socket[s].token \in Token
    BY <1>1, <1>4, <2>1 DEF SessionsTypeOK, Session, NoSession, FrameArrives, Authorised
  <2>3. frame \in Frame /\ frame.node = n
    BY <2>1, <2>2 DEF Frame
  <2>4. /\ slot' = [slot EXCEPT ![DirectionOf[n]] = frame]
        /\ UNCHANGED <<batch, feed, clearing, revoked>>
    BY <1>4 DEF FrameArrives
  <2> HIDE DEF n, frame
  <2> QED BY <1>1, <2>1, <2>3, <2>4 DEF FramesType, FramesAtHome
<1>5. ASSUME TakeBatch
      PROVE  FramesType' /\ FramesAtHome'
  BY <1>1, <1>5 DEF TakeBatch, FramesType, FramesAtHome, NoFramesYet
<1>6. ASSUME ProcessBatch
      PROVE  FramesType' /\ FramesAtHome'
  <2>1. PICK lost : batch' = [d \in Directions |-> IF d \in lost THEN NoFrame ELSE batch[d]]
    BY <1>6 DEF ProcessBatch
  <2> QED BY <1>1, <1>6, <2>1 DEF ProcessBatch, FramesType, FramesAtHome
<1>7. ASSUME BatchFails
      PROVE  FramesType' /\ FramesAtHome'
  BY <1>1, <1>7 DEF BatchFails, FramesType, FramesAtHome, NoFramesYet
<1>8. ASSUME NEW d \in Directions, ClearFeed(d)
      PROVE  /\ FramesType' /\ \A e \in clearing \ clearing' : feed'[e] = 0
             /\ \A e \in Directions : feed'[e] \in {0, feed[e]}
  BY <1>1, <1>8 DEF ClearFeed, FramesType
<1>9. ASSUME ClearFeeds
      PROVE  FramesType' /\ UNCHANGED clearing /\ \A e \in Directions : feed'[e] \in {0, feed[e]}
  BY <1>1, <1>9 DEF ClearFeeds, FramesType
<1>10. CASE \E s \in Sockets : FrameArrives(s)
  BY <1>2, <1>4, <1>10 DEF FrameArrives
<1>11. CASE TakeBatch
  BY <1>2, <1>5, <1>11 DEF TakeBatch
<1>12. CASE ProcessBatch
  BY <1>2, <1>6, <1>12 DEF ProcessBatch
<1>13. CASE BatchFails
  BY <1>2, <1>7, <1>13 DEF BatchFails
<1>14. CASE BatchDone
  <2>1. FramesType' /\ FramesAtHome'
    BY <1>1, <1>14 DEF BatchDone, FramesType, FramesAtHome
  <2> QED BY <1>2, <1>14, <2>1 DEF BatchDone
<1>15. CASE ClearFeeds
  BY <1>3, <1>9, <1>15 DEF ClearFeeds
<1>16. CASE \E d \in Directions : ClearFeed(d)
  BY <1>3, <1>8, <1>16 DEF ClearFeed
<1>17. CASE \E d \in Directions : Disconnect(d)
  BY <1>1, <1>17, DisconnectKeeps
<1>18. ASSUME NEW d \in Directions, Publish(d)
       PROVE  \A e \in Directions : feed'[e] # 0 => feed'[e] >= feed[e]
  <2>1. \A e \in Directions \ {d} : feed'[e] = feed[e]
    BY <1>1, <1>18 DEF Publish, FramesType
  <2> QED BY <1>1, <1>18, <2>1, PublishKeeps
<1>19. CASE \E d \in Directions : Publish(d)
  BY <1>18, <1>19, PublishKeeps
<1> QED
  BY <1>10, <1>11, <1>12, <1>13, <1>14, <1>15, <1>16, <1>17, <1>19 DEF FrameStep

-----------------------------------------------------------------------------
LEMMA InitInv == Init => Inv
<1> SUFFICES ASSUME Init PROVE Inv
  OBVIOUS
<1>1. \A n \in Nodes : sessions[n] = NoSession
  BY DEF Init, SessionsInit
<1>2. SessionsTypeOK /\ ReplacingNode
  <2>1. NewEndpoint \in Endpoint
    BY DEF NewEndpoint, Endpoint
  <2> QED BY <2>1 DEF Init, SessionsInit, SessionsTypeOK, ReplacingNode, NewEndpoint
<1>3. SessionsInv
  BY <1>1, <1>2 DEF SessionsInv, OneCameraPerDirection, LiveNodes, Live, NoSession,
                    TokensCreated, TokensDiffer, Init, SessionsInit
<1>4. FeedInv
  BY <1>1 DEF Init, SessionsInit, NoFramesYet, FeedInv, FramesType, FramesAtHome, NoFuture,
              LiveIsNewest, Live, NoSession, DisconnectedStaysGone
<1> QED BY <1>3, <1>4 DEF Inv

LEMMA NextInv == Inv /\ [Next]_vars => Inv'
<1> SUFFICES ASSUME Inv, [Next]_vars PROVE Inv'
  OBVIOUS
<1>1. CASE SessionsStep /\ UNCHANGED frameVars
  BY <1>1, SessionsStepKeeps, SessionsKeepFeed DEF Inv
<1>2. CASE FrameStep
  BY <1>2, FrameStepKeeps DEF Inv
<1>3. CASE UNCHANGED vars
  <2>1. UNCHANGED sessionVars /\ UNCHANGED frameVars
    BY <1>3 DEF vars
  <2>2. FramesType' /\ FramesAtHome'
    BY <2>1 DEF Inv, FeedInv, FramesType, FramesAtHome, frameVars
  <2>3. \A d \in Directions : feed'[d] \in {0, feed[d]}
    BY <2>1 DEF frameVars
  <2> QED BY <2>1, <2>2, <2>3, FeedKept DEF Inv, frameVars
<1> QED BY <1>1, <1>2, <1>3 DEF Next

LEMMA Invariance == Spec => []Inv
BY InitInv, NextInv, PTL DEF Spec

(* create_session and the registration guard keep one unexpired session    *)
(* per direction, for any cameras and any interleaving of the handlers.    *)
THEOREM OneCamera == Spec => []OneCameraPerDirection
<1>1. Inv => OneCameraPerDirection
  BY DEF Inv, SessionsInv
<1> QED BY <1>1, Invariance, PTL

(* The check of a result's owner before it is published is enough: what    *)
(* the feed shows of a direction is never replaced by an older session's.  *)
THEOREM FeedIsMonotone == Spec => FeedNeverGoesBack
<1>1. Inv /\ [Next]_vars => [\A d \in Directions : feed'[d] # 0 => feed'[d] >= feed[d]]_vars
  <2> SUFFICES ASSUME Inv, Next
               PROVE  \A d \in Directions : feed'[d] # 0 => feed'[d] >= feed[d]
    OBVIOUS
  <2>1. CASE SessionsStep /\ UNCHANGED frameVars
    BY <2>1, SessionsAssumption DEF frameVars, Inv, FeedInv, FramesType, Token
  <2>2. CASE FrameStep
    BY <2>2, FrameStepKeeps
  <2> QED BY <2>1, <2>2 DEF Next
<1> QED BY <1>1, Invariance, PTL DEF Spec, FeedNeverGoesBack

(* A disconnected camera does not come back to the feed: its session is    *)
(* gone when DISCONNECT ends, and its picture when the feed is cleared.    *)
THEOREM DisconnectedGone == Spec => []DisconnectedStaysGone
<1>1. Inv => DisconnectedStaysGone
  BY DEF Inv, FeedInv
<1> QED BY <1>1, Invariance, PTL

-----------------------------------------------------------------------------
(* The slots and the batch hold at most one frame per direction.           *)
LEMMA DirectionsFinite ==
  ASSUME NEW S, S \subseteq Directions
  PROVE  IsFiniteSet(S) /\ Cardinality(S) \in Nat
BY FramesAssumption, FS_Subset, FS_CardinalityType

CountInv ==
  /\ received \in Nat /\ settled \in Nat
  /\ NeverCountedTwice

(* A frame is counted when it leaves a slot or the batch, and never kept.  *)
LEMMA CountKept ==
  ASSUME Inv, CountInv, [Next]_vars
  PROVE  CountInv'
<1> DEFINE w == Cardinality(Waiting)
           t == Cardinality(Taken)
<1>1. w \in Nat /\ t \in Nat /\ IsFiniteSet(Waiting) /\ IsFiniteSet(Taken)
  BY DirectionsFinite DEF Waiting, Taken
<1>2. settled + w + t <= received /\ received \in Nat /\ settled \in Nat
  BY DEF CountInv, NeverCountedTwice
<1> HIDE DEF w, t
<1>3. CASE UNCHANGED <<slot, batch, received, settled>>
  BY <1>2, <1>3 DEF CountInv, NeverCountedTwice, Waiting, Taken, w, t
<1>4. ASSUME NEW s \in Sockets, FrameArrives(s)
      PROVE  CountInv'
  <2> DEFINE n == socket[s].node
             d == DirectionOf[n]
             frame == [socket |-> s, node |-> n, token |-> socket[s].token]
  <2>1. /\ n # NoNode /\ received' = received + 1 /\ UNCHANGED batch
        /\ slot' = [slot EXCEPT ![d] = frame]
        /\ settled' = IF slot[d] = NoFrame THEN settled ELSE settled + 1
    BY <1>4 DEF FrameArrives
  <2>2. n \in Nodes
    BY <2>1 DEF Inv, SessionsInv, SessionsTypeOK, Endpoint
  <2>3. d \in Directions /\ frame # NoFrame
    BY <2>1, <2>2, SessionsAssumption DEF NoFrame
  <2>4. Waiting' = Waiting \cup {d} /\ (d \in Waiting <=> slot[d] # NoFrame)
    BY <2>1, <2>3 DEF Waiting, Inv, FeedInv, FramesType
  <2>5. Cardinality(Waiting') = IF d \in Waiting THEN w ELSE w + 1
    BY <1>1, <2>4, FS_AddElement DEF w
  <2>6. Taken' = Taken
    BY <2>1 DEF Taken
  <2> HIDE DEF d, n, frame
  <2>7. settled' + Cardinality(Waiting') + t <= received'
    BY <1>1, <1>2, <2>1, <2>4, <2>5
  <2> QED BY <1>2, <2>1, <2>6, <2>7 DEF CountInv, NeverCountedTwice, t
<1>5. CASE TakeBatch
  <2>1. Taken' = Waiting /\ Waiting' = {} /\ UNCHANGED <<received, settled>>
    BY <1>5 DEF TakeBatch, Taken, Waiting, NoFramesYet
  <2>2. Cardinality(Waiting') = 0 /\ Cardinality(Taken') = w
    BY <2>1, FS_EmptySet DEF w
  <2> QED BY <1>1, <1>2, <2>1, <2>2 DEF CountInv, NeverCountedTwice
<1>6. CASE ProcessBatch
  <2>1. PICK discarded \in SUBSET Taken, stale \in SUBSET Taken :
          /\ settled' = settled + Cardinality(discarded)
          /\ batch' = [d \in Directions |->
                        IF d \in discarded \cup stale THEN NoFrame ELSE batch[d]]
    BY <1>6 DEF ProcessBatch
  <2>2. UNCHANGED <<slot, received>> /\ Waiting' = Waiting
    BY <1>6 DEF ProcessBatch, Waiting
  <2>3. Taken' \subseteq Taken \ discarded
    BY <2>1 DEF Taken
  <2>4. /\ IsFiniteSet(Taken \ discarded)
        /\ Cardinality(Taken \ discarded) = t - Cardinality(Taken \cap discarded)
    BY <1>1, FS_Difference DEF t
  <2>5. Taken \cap discarded = discarded
    OBVIOUS
  <2>6. Cardinality(Taken') \in Nat /\ Cardinality(Taken') <= Cardinality(Taken \ discarded)
    BY <2>3, <2>4, FS_Subset, FS_CardinalityType
  <2>7. Cardinality(discarded) \in Nat
    BY <1>1, FS_Subset, FS_CardinalityType
  <2>8. Cardinality(Taken') + Cardinality(discarded) <= t
    <3>1. Cardinality(Taken \ discarded) = t - Cardinality(discarded)
      BY <2>4, <2>5
    <3> DEFINE taken == Cardinality(Taken')
               rest == Cardinality(Taken \ discarded)
               gone == Cardinality(discarded)
    <3>2. taken \in Nat /\ gone \in Nat /\ taken <= rest /\ rest = t - gone
      BY <2>6, <2>7, <3>1
    <3> HIDE DEF taken, rest, gone
    <3>3. taken + gone <= t
      BY <1>1, <3>2
    <3> QED BY <3>3 DEF taken, gone
  <2> QED BY <1>1, <1>2, <2>1, <2>2, <2>6, <2>7, <2>8 DEF CountInv, NeverCountedTwice, w
<1>7. CASE BatchFails
  <2>1. Taken' = {} /\ Waiting' = Waiting /\ UNCHANGED <<received, settled>>
    BY <1>7 DEF BatchFails, Taken, Waiting, NoFramesYet
  <2> QED BY <1>1, <1>2, <2>1, FS_EmptySet DEF CountInv, NeverCountedTwice, w
<1>8. ASSUME NEW d \in Directions, Publish(d)
      PROVE  CountInv'
  <2>1. /\ d \in Taken /\ settled' = settled + 1 /\ UNCHANGED <<slot, received>>
        /\ batch' = [batch EXCEPT ![d] = NoFrame]
    BY <1>8 DEF Publish
  <2>2. Taken' = Taken \ {d} /\ Waiting' = Waiting
    BY <2>1 DEF Taken, Waiting, Inv, FeedInv, FramesType
  <2>3. Cardinality(Taken') = t - 1
    BY <1>1, <2>1, <2>2, FS_RemoveElement DEF t
  <2> QED BY <1>1, <1>2, <2>1, <2>2, <2>3 DEF CountInv, NeverCountedTwice, w
<1>9. CASE (SessionsStep /\ UNCHANGED frameVars) \/ UNCHANGED vars
  BY <1>3, <1>9 DEF frameVars, vars
<1>10. CASE BatchDone \/ ClearFeeds \/ \E d \in Directions : Disconnect(d) \/ ClearFeed(d)
  BY <1>3, <1>10 DEF BatchDone, ClearFeeds, Disconnect, ClearFeed
<1> QED BY <1>4, <1>5, <1>6, <1>7, <1>8, <1>9, <1>10 DEF Next, FrameStep

(* NeverCountedTwice, for any number of directions, cameras and frames:    *)
(* the stage counters never add up to more frames than were received.      *)
THEOREM NeverCountedTwiceAlways == Spec => []NeverCountedTwice
<1>1. Init => CountInv
  <2> SUFFICES ASSUME Init PROVE CountInv
    OBVIOUS
  <2>1. Waiting = {} /\ Taken = {}
    BY DEF Init, Waiting, Taken, NoFramesYet
  <2>2. Cardinality(Waiting) = 0 /\ Cardinality(Taken) = 0
    BY <2>1, FS_EmptySet
  <2> QED BY <2>2 DEF Init, CountInv, NeverCountedTwice
<1>2. CountInv => NeverCountedTwice
  BY DEF CountInv
<1> QED BY <1>1, <1>2, CountKept, Invariance, PTL DEF Spec
=============================================================================
