----------------------------- MODULE CameraSourceProofs ----------------------
(***************************************************************************)
(* What holds where the pictures come in: of the WebRTC receivers of a     *)
(* camera node, for any number of registrations and offers, and of the     *)
(* desktop program, its cameras and its profile, for any approaches and    *)
(* sources.                                                                *)
(***************************************************************************)
EXTENDS VideoPeers, DesktopSystem, FiniteSetTheorems, TLAPS

(***************************************************************************)
(* The inductive invariant of VideoPeers.  A peer whose offer still waits  *)
(* for the old one has no task yet; a frame is kept only by a peer that    *)
(* has had its track.                                                      *)
(***************************************************************************)
RunsIn(rec) == rec.receiver = "running" \/ rec.sampler \in {"running", "converting"}

PeerOK(rec) ==
  /\ rec \in PeerRecord
  /\ rec.offer = "replacing" => rec.receiver = "none" /\ rec.sampler = "none"
  /\ rec.receiver = "none" => ~rec.latest
  /\ rec.latest /\ rec.sampler \in {"running", "converting"} => rec.ready

Closings == [Peer -> [Closer -> {"no", "gathering", "closing"}]]

Cared(p, rec, newest) == RunsIn(rec) => newest = p \/ rec.offer \in Negotiating

(* The part that Register, SessionEnds and SwitchStream change.            *)
NodeOK ==
  /\ current \in 0 .. MaxRegistrations
  /\ streaming \in BOOLEAN
  /\ \E n \in 0 .. MaxRegistrations : socket \in [1 .. n -> {"open", "closing", "gone"}]
  /\ current \in Registered \cup {0}

(* The part that offers, tasks and closings change.                        *)
PeersOK ==
  /\ owner \in 0 .. MaxPeers
  /\ \E n \in 0 .. MaxPeers : peer \in [1 .. n -> PeerRecord]
  /\ closing \in Closings
  /\ owner \in {0, Cardinality(Offered)}
  /\ \A p \in Offered : PeerOK(peer[p]) /\ Cared(p, peer[p], owner)

(* How many there are so far: the peers and sockets are numbered.          *)
LEMMA Counted ==
  ASSUME NEW n \in Nat, NEW S, NEW f \in [1 .. n -> S]
  PROVE  DOMAIN f = 1 .. n /\ Cardinality(DOMAIN f) = n
<1>1. DOMAIN f = 1 .. n
  OBVIOUS
<1>2. Cardinality(1 .. n) = n
  BY FS_Interval, 0 \in Int, 1 \in Int
<1> QED BY <1>1, <1>2

-----------------------------------------------------------------------------
(* What the steps do to the record of a peer.                              *)
LEMMA CancelledOK ==
  ASSUME NEW rec, PeerOK(rec)
  PROVE  PeerOK(CancelTasks(rec)) /\ ~RunsIn(CancelTasks(rec))
<1> DEFINE w == CancelTasks(rec)
<1>1. rec \in PeerRecord
  BY DEF PeerOK
<1>2. /\ w \in PeerRecord
      /\ w.offer = rec.offer
      /\ w.receiver = Cancelled(rec.receiver)
      /\ w.sampler = Cancelled(rec.sampler)
      /\ w.latest => rec.latest
      /\ w.ready = FALSE
  <2> DEFINE a == Cancelled(rec.receiver)
             b == Cancelled(rec.sampler)
  <2>1. a \in Task \ {"converting"} /\ b \in Task
    BY <1>1 DEF PeerRecord, Cancelled, Task
  <2>2. CASE rec.latest /\ rec.listed
    <3>1. w = [rec EXCEPT !.receiver = a, !.sampler = b, !.latest = TRUE, !.ready = FALSE]
      BY <2>2 DEF CancelTasks
    <3> HIDE DEF w
    <3> QED BY <2>1, <2>2, <3>1, <1>1 DEF PeerRecord
  <2>3. CASE ~(rec.latest /\ rec.listed)
    <3>1. w = [rec EXCEPT !.receiver = a, !.sampler = b, !.latest = FALSE, !.ready = FALSE]
      BY <2>3 DEF CancelTasks
    <3> HIDE DEF w
    <3> QED BY <2>1, <2>3, <3>1, <1>1 DEF PeerRecord
  <2> QED BY <2>2, <2>3
<1>3. rec.receiver \in Task \ {"converting"} /\ rec.sampler \in Task
  BY <1>1 DEF PeerRecord
<1>4. /\ w.receiver = "none" <=> rec.receiver = "none"
      /\ w.sampler = "none" <=> rec.sampler = "none"
      /\ ~RunsIn(w)
  BY <1>2, <1>3 DEF RunsIn, Cancelled, Task
<1> HIDE DEF w
<1>5. PeerOK(w)
  BY <1>2, <1>4 DEF PeerOK, RunsIn
<1> QED BY <1>4, <1>5 DEF w

(* Steps that leave the tasks of a peer alone.                             *)
LEMMA TasksLeftAlone ==
  ASSUME NEW rec, PeerOK(rec), NEW w \in PeerRecord,
         w.receiver = rec.receiver, w.sampler = rec.sampler,
         w.latest => rec.latest, w.ready = rec.ready, w.offer # "replacing" \/ w.offer = rec.offer
  PROVE  PeerOK(w) /\ (RunsIn(w) <=> RunsIn(rec))
BY DEF PeerOK, RunsIn

LEMMA OfferSet ==
  ASSUME NEW rec, PeerOK(rec), NEW at \in {"remote", "local", "failing", "done"},
         NEW w, w = [rec EXCEPT !.offer = at]
  PROVE  PeerOK(w) /\ (RunsIn(w) <=> RunsIn(rec)) /\ w.offer = at
<1>1. rec \in PeerRecord
  BY DEF PeerOK
<1>2. /\ w \in PeerRecord
      /\ w.receiver = rec.receiver /\ w.sampler = rec.sampler
      /\ w.latest = rec.latest /\ w.ready = rec.ready /\ w.offer = at
  BY <1>1 DEF PeerRecord, Negotiating
<1> QED BY <1>2, TasksLeftAlone

LEMMA FieldsSet ==
  ASSUME NEW rec, PeerOK(rec)
  PROVE  /\ LET w == [rec EXCEPT !.listed = FALSE, !.latest = FALSE]
            IN  PeerOK(w) /\ (RunsIn(w) <=> RunsIn(rec)) /\ w.offer = rec.offer
         /\ \A b \in {TRUE, FALSE} :
              LET w == [rec EXCEPT !.scheduled = b]
              IN  PeerOK(w) /\ (RunsIn(w) <=> RunsIn(rec)) /\ w.offer = rec.offer
         /\ \A at \in {"closed", "abandoned"} :
              LET w == [rec EXCEPT !.pc = at]
              IN  PeerOK(w) /\ (RunsIn(w) <=> RunsIn(rec)) /\ w.offer = rec.offer
         /\ \A at \in {"remote", "failing"} :
              LET w == [rec EXCEPT !.offer = at, !.replaces = 0]
              IN  PeerOK(w) /\ (RunsIn(w) <=> RunsIn(rec)) /\ w.offer = at
<1> USE PeersAssumption
<1>0. rec \in PeerRecord
  BY DEF PeerOK
<1>1. LET w == [rec EXCEPT !.listed = FALSE, !.latest = FALSE]
      IN  PeerOK(w) /\ (RunsIn(w) <=> RunsIn(rec)) /\ w.offer = rec.offer
  <2> DEFINE w == [rec EXCEPT !.listed = FALSE, !.latest = FALSE]
  <2>1. /\ w \in PeerRecord
        /\ w.receiver = rec.receiver /\ w.sampler = rec.sampler
        /\ w.latest = FALSE /\ w.ready = rec.ready /\ w.offer = rec.offer
    BY <1>0 DEF PeerRecord
  <2> HIDE DEF w
  <2>2. PeerOK(w) /\ (RunsIn(w) <=> RunsIn(rec))
    BY <2>1, TasksLeftAlone
  <2> QED BY <2>1, <2>2 DEF w
<1>2. ASSUME NEW b \in {TRUE, FALSE}
      PROVE  LET w == [rec EXCEPT !.scheduled = b]
             IN  PeerOK(w) /\ (RunsIn(w) <=> RunsIn(rec)) /\ w.offer = rec.offer
  <2> DEFINE w == [rec EXCEPT !.scheduled = b]
  <2>1. /\ w \in PeerRecord
        /\ w.receiver = rec.receiver /\ w.sampler = rec.sampler
        /\ w.latest = rec.latest /\ w.ready = rec.ready /\ w.offer = rec.offer
    BY <1>0 DEF PeerRecord
  <2> HIDE DEF w
  <2>2. PeerOK(w) /\ (RunsIn(w) <=> RunsIn(rec))
    BY <2>1, TasksLeftAlone
  <2> QED BY <2>1, <2>2 DEF w
<1>3. ASSUME NEW at \in {"closed", "abandoned"}
      PROVE  LET w == [rec EXCEPT !.pc = at]
             IN  PeerOK(w) /\ (RunsIn(w) <=> RunsIn(rec)) /\ w.offer = rec.offer
  <2> DEFINE w == [rec EXCEPT !.pc = at]
  <2>1. /\ w \in PeerRecord
        /\ w.receiver = rec.receiver /\ w.sampler = rec.sampler
        /\ w.latest = rec.latest /\ w.ready = rec.ready /\ w.offer = rec.offer
    BY <1>0 DEF PeerRecord
  <2> HIDE DEF w
  <2>2. PeerOK(w) /\ (RunsIn(w) <=> RunsIn(rec))
    BY <2>1, TasksLeftAlone
  <2> QED BY <2>1, <2>2 DEF w
<1>4. ASSUME NEW at \in {"remote", "failing"}
      PROVE  LET w == [rec EXCEPT !.offer = at, !.replaces = 0]
             IN  PeerOK(w) /\ (RunsIn(w) <=> RunsIn(rec)) /\ w.offer = at
  <2> DEFINE w == [rec EXCEPT !.offer = at, !.replaces = 0]
  <2>1. /\ w \in PeerRecord
        /\ w.receiver = rec.receiver /\ w.sampler = rec.sampler
        /\ w.latest = rec.latest /\ w.ready = rec.ready /\ w.offer = at
    <3>1. 0 \in 0 .. MaxPeers
      OBVIOUS
    <3>2. at \in Negotiating \cup {"failing", "done"}
      BY DEF Negotiating
    <3> QED BY <1>0, <3>1, <3>2 DEF PeerRecord
  <2> HIDE DEF w
  <2>2. PeerOK(w) /\ (RunsIn(w) <=> RunsIn(rec))
    BY <2>1, TasksLeftAlone
  <2> QED BY <2>1, <2>2 DEF w
<1> QED BY <1>1, <1>2, <1>3, <1>4

-----------------------------------------------------------------------------
(* A step under which the peers stay in number and all right.              *)
LEMMA PeersChange ==
  ASSUME PeersOK, closing' \in Closings, owner' \in {0, owner},
         DOMAIN peer' = Offered, peer' = [q \in DOMAIN peer' |-> peer'[q]],
         \A q \in Offered : PeerOK(peer'[q]) /\ Cared(q, peer'[q], owner')
  PROVE  PeersOK'
<1>1. PICK n \in 0 .. MaxPeers : peer \in [1 .. n -> PeerRecord]
  BY DEF PeersOK
<1>2. Offered = 1 .. n /\ Offered' = Offered
  BY <1>1 DEF Offered
<1>3. peer' \in [1 .. n -> PeerRecord]
  BY <1>2 DEF PeerOK
<1>4. owner' \in 0 .. MaxPeers /\ owner' \in {0, Cardinality(Offered')}
  BY <1>2, PeersAssumption DEF PeersOK
<1>5. \A q \in Offered' : PeerOK(peer'[q]) /\ Cared(q, peer'[q], owner')
  BY <1>2
<1> QED BY <1>1, <1>3, <1>4, <1>5 DEF PeersOK

(* A step that gives one peer another record.                              *)
LEMMA OneChanges ==
  ASSUME PeersOK, NEW p \in Offered, NEW rec, PeerOK(rec),
         peer' = [peer EXCEPT ![p] = rec],
         closing' \in Closings,
         owner' = owner \/ (owner = p /\ owner' = 0),
         Cared(p, rec, owner')
  PROVE  PeersOK'
<1>1. DOMAIN peer' = Offered /\ peer' = [q \in DOMAIN peer' |-> peer'[q]]
  BY DEF Offered
<1>2. ASSUME NEW q \in Offered
      PROVE  PeerOK(peer'[q]) /\ Cared(q, peer'[q], owner')
  <2>1. CASE q = p
    BY <2>1 DEF Offered
  <2>2. CASE q # p
    <3>1. peer'[q] = peer[q]
      BY <2>2 DEF Offered
    <3>2. PeerOK(peer[q]) /\ Cared(q, peer[q], owner)
      BY DEF PeersOK
    <3> QED BY <3>1, <3>2, <2>2 DEF Cared
  <2> QED BY <2>1, <2>2
<1> QED BY <1>1, <1>2, PeersChange

LEMMA OwnerIsOffered ==
  ASSUME PeersOK
  PROVE  owner \in Offered \cup {0} /\ Offered \subseteq Peer
<1>1. PICK n \in 0 .. MaxPeers : peer \in [1 .. n -> PeerRecord]
  BY DEF PeersOK
<1>2. Offered = 1 .. n /\ Cardinality(Offered) = n /\ n \in Nat /\ n <= MaxPeers
  BY <1>1, Counted, PeersAssumption DEF Offered
<1> QED BY <1>2, PeersAssumption DEF PeersOK, Peer

LEMMA PeerWasOK ==
  ASSUME PeersOK, NEW p \in Offered
  PROVE  /\ PeerOK(peer[p]) /\ Cared(p, peer[p], owner)
         /\ peer[p] \in PeerRecord /\ p \in Peer
BY OwnerIsOffered DEF PeersOK, PeerOK

LEMMA ClosingTyped ==
  ASSUME PeersOK, NEW p \in Peer, NEW c \in Closer, Closing(p, c)
  PROVE  closing' \in Closings
BY DEF Closing, Disconnecting, Closings, PeersOK

(* _close_peer takes a peer away with its tasks.                           *)
LEMMA CloseBegins ==
  ASSUME PeersOK, NEW p \in Offered, NEW c \in Closer, NEW rec, PeerOK(rec),
         BeginClose(p, c, rec)
  PROVE  PeersOK'
<1>1. PeerOK(CancelTasks(rec)) /\ ~RunsIn(CancelTasks(rec))
  BY CancelledOK
<1>2. p \in Peer
  BY PeerWasOK
<1>3. closing' \in Closings
  BY <1>2, ClosingTyped DEF BeginClose
<1>4. Cared(p, CancelTasks(rec), owner')
  BY <1>1 DEF Cared
<1> QED BY <1>1, <1>3, <1>4, OneChanges DEF BeginClose

-----------------------------------------------------------------------------
(* The steps of the deferred closings.                                     *)
LEMMA ClosingSteps ==
  ASSUME PeersOK, NEW p \in Offered, CloseStep(p)
  PROVE  PeersOK'
<1>0. PeerOK(peer[p]) /\ Cared(p, peer[p], owner) /\ p \in Peer
  BY PeerWasOK
<1>1. CASE CleanupBegins(p)
  <2>1. PeerOK([peer[p] EXCEPT !.scheduled = FALSE])
    BY <1>0, FieldsSet
  <2> QED BY <1>1, <2>1, CloseBegins DEF CleanupBegins, Closer
<1>2. ASSUME NEW c \in Closer, TasksGathered(p, c)
      PROVE  PeersOK'
  <2> DEFINE w == [peer[p] EXCEPT !.listed = FALSE, !.latest = FALSE]
  <2>1. PeerOK(w) /\ (RunsIn(w) <=> RunsIn(peer[p])) /\ w.offer = peer[p].offer
    BY <1>0, FieldsSet
  <2>2. peer' = [peer EXCEPT ![p] = w]
    BY <1>2 DEF TasksGathered
  <2>3. closing' \in Closings /\ owner' = owner
    BY <1>2, <1>0 DEF TasksGathered, Closings, PeersOK, Disconnecting
  <2> HIDE DEF w
  <2>4. Cared(p, w, owner')
    BY <2>1, <2>3, <1>0 DEF Cared
  <2> QED BY <2>1, <2>2, <2>3, <2>4, OneChanges
<1>3. ASSUME NEW c \in Closer, ConnectionClosed(p, c)
      PROVE  PeersOK'
  <2> DEFINE w == [peer[p] EXCEPT !.pc = "closed"]
  <2>1. PeerOK(w) /\ (RunsIn(w) <=> RunsIn(peer[p])) /\ w.offer = peer[p].offer
    BY <1>0, FieldsSet
  <2>2. peer' = [peer EXCEPT ![p] = w]
    BY <1>3 DEF ConnectionClosed
  <2>3. closing' \in Closings /\ owner' = owner
    BY <1>3, <1>0 DEF ConnectionClosed, Closings, PeersOK
  <2> HIDE DEF w
  <2>4. Cared(p, w, owner')
    BY <2>1, <2>3, <1>0 DEF Cared
  <2> QED BY <2>1, <2>2, <2>3, <2>4, OneChanges
<1> QED BY <1>1, <1>2, <1>3 DEF CloseStep

LEMMA OfferFailsKeeps ==
  ASSUME PeersOK, NEW p \in Offered, OfferFails(p)
  PROVE  PeersOK'
<1>1. PeerOK([peer[p] EXCEPT !.offer = "failing"])
  BY PeerWasOK, OfferSet
<1> QED BY <1>1, CloseBegins DEF OfferFails, Closer

(* An offer goes on, and nobody loses sight of its tasks.                  *)
LEMMA OfferGoesOn ==
  ASSUME PeersOK, NEW p \in Offered, NEW at \in {"remote", "local", "done"}, OfferBecomes(p, at),
         at = "done" => owner = p \/ peer[p].offer \notin Negotiating
  PROVE  PeersOK'
<1> DEFINE w == [peer[p] EXCEPT !.offer = at]
<1>0. PeerOK(peer[p]) /\ Cared(p, peer[p], owner)
  BY PeerWasOK
<1>1. PeerOK(w) /\ (RunsIn(w) <=> RunsIn(peer[p])) /\ w.offer = at
  BY <1>0, OfferSet
<1>2. peer' = [peer EXCEPT ![p] = w] /\ owner' = owner /\ closing' = closing
  BY DEF OfferBecomes
<1> HIDE DEF w
<1>3. Cared(p, w, owner')
  BY <1>0, <1>1, <1>2 DEF Cared, Negotiating
<1>4. closing' \in Closings
  BY <1>2 DEF PeersOK
<1> QED BY <1>1, <1>2, <1>3, <1>4, OneChanges

LEMMA OfferSteps ==
  ASSUME PeersOK, NEW p \in Offered, OfferStep(p)
  PROVE  PeersOK'
<1>0. PeerOK(peer[p]) /\ Cared(p, peer[p], owner) /\ peer[p] \in PeerRecord
  BY PeerWasOK
<1>1. CASE OldClosed(p)
  <2> DEFINE w == [peer[p] EXCEPT !.offer = "remote", !.replaces = 0]
  <2>1. PeerOK(w) /\ (RunsIn(w) <=> RunsIn(peer[p])) /\ w.offer = "remote"
    BY <1>0, FieldsSet
  <2>2. peer' = [peer EXCEPT ![p] = w] /\ owner' = owner /\ closing' = closing
    BY <1>1 DEF OldClosed
  <2> HIDE DEF w
  <2>3. Cared(p, w, owner')
    BY <2>1 DEF Cared, Negotiating
  <2>4. closing' \in Closings
    BY <2>2 DEF PeersOK
  <2> QED BY <2>1, <2>2, <2>3, <2>4, OneChanges
<1>2. CASE Track(p)
  <2> DEFINE w == [peer[p] EXCEPT !.listed = TRUE, !.receiver = "running", !.sampler = "running"]
  <2>1. /\ w \in PeerRecord
        /\ w.offer = "remote" /\ w.receiver = "running" /\ w.latest = peer[p].latest
    BY <1>0, <1>2 DEF Track, PeerRecord, Task
  <2>2. peer' = [peer EXCEPT ![p] = w] /\ owner' = owner /\ closing' = closing
    BY <1>2 DEF Track
  <2>3. ~peer[p].latest
    BY <1>0, <1>2 DEF Track, PeerOK
  <2> HIDE DEF w
  <2>4. PeerOK(w) /\ Cared(p, w, owner')
    BY <2>1, <2>3 DEF PeerOK, Cared, Negotiating
  <2>5. closing' \in Closings
    BY <2>2 DEF PeersOK
  <2> QED BY <2>2, <2>4, <2>5, OneChanges
<1>3. CASE RemoteDescribed(p)
  BY <1>3, OfferGoesOn DEF RemoteDescribed
<1>4. CASE LocallyDescribed(p)
  <2>1. CASE HasSession(p)
    BY <1>4, <2>1, OfferGoesOn DEF LocallyDescribed, HasSession
  <2>2. CASE ~HasSession(p)
    BY <1>4, <2>2, OfferFailsKeeps DEF LocallyDescribed
  <2> QED BY <2>1, <2>2
<1>5. CASE FailureEnds(p)
  <2>1. peer[p].offer \notin Negotiating
    BY <1>5 DEF FailureEnds, Negotiating
  <2> QED BY <1>5, <2>1, OfferGoesOn DEF FailureEnds
<1> QED BY <1>1, <1>2, <1>3, <1>4, <1>5 DEF OfferStep

(* The ten seconds end: also while the old peer closes, which then stays   *)
(* as it is.                                                               *)
LEMMA OfferFaults ==
  ASSUME PeersOK, NEW p \in Offered, OfferFault(p)
  PROVE  PeersOK'
<1>1. CASE NegotiationFails(p)
  BY <1>1, OfferFailsKeeps DEF NegotiationFails
<1>2. CASE ReplacingTimesOut(p)
  <2> DEFINE old == peer[p].replaces
             w == [peer[p] EXCEPT !.offer = "failing", !.replaces = 0]
             v == [peer EXCEPT ![p] = w]
             at == IF v[old].pc = "open" THEN "abandoned" ELSE v[old].pc
  <2>0. PeerOK(peer[p]) /\ p \in Peer /\ peer[p].offer = "replacing"
    BY <1>2, PeerWasOK DEF ReplacingTimesOut
  <2>1. PeerOK(w) /\ ~RunsIn(w)
    <3>1. PeerOK(w) /\ (RunsIn(w) <=> RunsIn(peer[p]))
      BY <2>0, FieldsSet
    <3> QED BY <3>1, <2>0 DEF PeerOK, RunsIn
  <2>2. /\ closing' \in Closings
        /\ owner' = IF owner = p THEN 0 ELSE owner
    BY <1>2, <2>0 DEF ReplacingTimesOut, PeersOK, Closings, Closer
  <2>3. peer' = [v EXCEPT ![old] = [v[old] EXCEPT !.pc = at]]
    BY <1>2 DEF ReplacingTimesOut
  <2>4. /\ DOMAIN v = Offered
        /\ v[p] = w
        /\ \A q \in Offered \ {p} : v[q] = peer[q]
    BY DEF Offered
  <2>5. ASSUME NEW q \in Offered
        PROVE  PeerOK(v[q]) /\ Cared(q, v[q], owner')
    <3>1. CASE q = p
      BY <3>1, <2>1, <2>4 DEF Cared
    <3>2. CASE q # p
      <4>1. PeerOK(peer[q]) /\ Cared(q, peer[q], owner) /\ v[q] = peer[q]
        BY <3>2, <2>4, PeerWasOK
      <4> QED BY <4>1, <3>2, <2>2 DEF Cared
    <3> QED BY <3>1, <3>2
  <2> HIDE DEF v, w, old
  <2>6. ASSUME NEW q \in Offered
        PROVE  PeerOK(peer'[q]) /\ Cared(q, peer'[q], owner')
    <3>1. CASE q = old
      <4> DEFINE u == [v[q] EXCEPT !.pc = at]
      <4>1. PeerOK(v[q]) /\ Cared(q, v[q], owner')
        BY <2>5
      <4>2. v[q].pc \in {"open", "closed", "abandoned"}
        BY <4>1 DEF PeerOK, PeerRecord
      <4>3. at \in {"closed", "abandoned"}
        BY <4>2, <3>1
      <4>4. PeerOK(u) /\ (RunsIn(u) <=> RunsIn(v[q])) /\ u.offer = v[q].offer
        BY <4>1, <4>3, FieldsSet
      <4>5. peer'[q] = u
        BY <2>3, <2>4, <3>1
      <4> HIDE DEF u
      <4> QED BY <4>1, <4>4, <4>5 DEF Cared
    <3>2. CASE q # old
      <4>1. peer'[q] = v[q]
        BY <2>3, <2>4, <3>2
      <4> QED BY <4>1, <2>5
    <3> QED BY <3>1, <3>2
  <2>7. DOMAIN peer' = Offered /\ peer' = [q \in DOMAIN peer' |-> peer'[q]]
    BY <2>3, <2>4
  <2> QED BY <2>2, <2>6, <2>7, PeersChange
<1> QED BY <1>1, <1>2 DEF OfferFault

(* A step of one of the two tasks that gives its peer another record.      *)
LEMMA ChangeKeeps ==
  ASSUME PeersOK, NEW p \in Offered, NEW rec, PeerOK(rec), Change(p, rec),
         RunsIn(rec) => RunsIn(peer[p]), rec.offer = peer[p].offer
  PROVE  PeersOK'
<1>1. Cared(p, rec, owner')
  BY PeerWasOK DEF Cared, Change
<1>2. closing' \in Closings
  BY DEF Change, PeersOK
<1> QED BY <1>1, <1>2, OneChanges DEF Change

LEMMA ReceiverEndsKeeps ==
  ASSUME PeersOK, NEW p \in Offered, ReceiverEnds(p), peer[p].receiver \in {"running", "cancelled"}
  PROVE  PeersOK'
<1> DEFINE b == IF peer[p].scheduled \/ owner = p THEN TRUE ELSE FALSE
           w == [peer[p] EXCEPT !.receiver = "ended", !.scheduled = b]
<1>0. PeerOK(peer[p]) /\ peer[p] \in PeerRecord
  BY PeerWasOK
<1>1. /\ w \in PeerRecord
      /\ w.receiver = "ended" /\ w.sampler = peer[p].sampler /\ w.offer = peer[p].offer
      /\ w.latest = peer[p].latest /\ w.ready = peer[p].ready
  BY <1>0 DEF PeerRecord, Task
<1>2. Change(p, w)
  <2>1. CASE peer[p].scheduled \/ owner = p
    <3>1. (peer[p].scheduled \/ owner = p) = TRUE /\ b = TRUE
      BY <2>1
    <3> QED BY <3>1 DEF ReceiverEnds
  <2>2. CASE ~(peer[p].scheduled \/ owner = p)
    <3>1. (peer[p].scheduled \/ owner = p) = FALSE /\ b = FALSE
      BY <2>2
    <3> QED BY <3>1 DEF ReceiverEnds
  <2> QED BY <2>1, <2>2
<1> HIDE DEF w
<1>3. PeerOK(w) /\ (RunsIn(w) => RunsIn(peer[p]))
  BY <1>0, <1>1 DEF PeerOK, RunsIn
<1> QED BY <1>1, <1>2, <1>3, ChangeKeeps

LEMMA MediaSteps ==
  ASSUME PeersOK, NEW p \in Offered, MediaStep(p)
  PROVE  PeersOK'
<1>0. PeerOK(peer[p]) /\ peer[p] \in PeerRecord
  BY PeerWasOK
<1>1. CASE Receive(p)
  <2>1. CASE ReceiverEnds(p)
    BY <1>1, <2>1, ReceiverEndsKeeps DEF Receive
  <2>2. CASE Change(p, [peer[p] EXCEPT !.latest = FALSE])
    <3> DEFINE w == [peer[p] EXCEPT !.latest = FALSE]
    <3>1. /\ w \in PeerRecord
          /\ w.receiver = peer[p].receiver /\ w.sampler = peer[p].sampler
          /\ w.latest = FALSE /\ w.ready = peer[p].ready /\ w.offer = peer[p].offer
      BY <1>0 DEF PeerRecord
    <3>2. Change(p, w)
      BY <2>2
    <3> HIDE DEF w
    <3>3. PeerOK(w) /\ (RunsIn(w) => RunsIn(peer[p]))
      BY <1>0, <3>1, TasksLeftAlone
    <3> QED BY <3>1, <3>2, <3>3, ChangeKeeps
  <2>3. CASE Change(p, [peer[p] EXCEPT !.latest = TRUE, !.ready = TRUE])
    <3> DEFINE w == [peer[p] EXCEPT !.latest = TRUE, !.ready = TRUE]
    <3>1. /\ w \in PeerRecord
          /\ w.receiver = peer[p].receiver /\ w.sampler = peer[p].sampler
          /\ w.ready = TRUE /\ w.offer = peer[p].offer
      BY <1>0 DEF PeerRecord
    <3>2. Change(p, w)
      BY <2>3
    <3>3. peer[p].receiver = "running"
      BY <1>1 DEF Receive
    <3> HIDE DEF w
    <3>4. PeerOK(w) /\ (RunsIn(w) => RunsIn(peer[p]))
      BY <1>0, <3>1, <3>3 DEF PeerOK, RunsIn
    <3> QED BY <3>1, <3>2, <3>4, ChangeKeeps
  <2> QED BY <1>1, <2>1, <2>2, <2>3 DEF Receive
<1>2. CASE TrackEnds(p)
  BY <1>2, ReceiverEndsKeeps DEF TrackEnds
<1>3. CASE ConnectionFails(p)
  <2> DEFINE w == [peer[p] EXCEPT !.scheduled = TRUE]
  <2>1. PeerOK(w) /\ (RunsIn(w) <=> RunsIn(peer[p])) /\ w.offer = peer[p].offer
    BY <1>0, FieldsSet
  <2>2. Change(p, w)
    BY <1>3 DEF ConnectionFails
  <2> HIDE DEF w
  <2> QED BY <2>1, <2>2, ChangeKeeps
<1> QED BY <1>1, <1>2, <1>3 DEF MediaStep

LEMMA SampleSteps ==
  ASSUME PeersOK, NEW p \in Offered, SampleStep(p)
  PROVE  PeersOK'
<1>0. PeerOK(peer[p]) /\ peer[p] \in PeerRecord
  BY PeerWasOK
<1>1. CASE TakeFrame(p)
  <2> DEFINE to == IF peer[p].latest /\ Streaming(p) THEN "converting" ELSE "running"
             w == [peer[p] EXCEPT !.latest = FALSE, !.ready = FALSE, !.sampler = to]
  <2>1. to \in {"converting", "running"} /\ peer[p].sampler = "running"
    BY <1>1 DEF TakeFrame
  <2>2. Change(p, w)
    BY <1>1 DEF TakeFrame
  <2> HIDE DEF to
  <2>3. /\ w \in PeerRecord
        /\ w.receiver = peer[p].receiver /\ w.latest = FALSE /\ w.offer = peer[p].offer
        /\ w.sampler = to
    BY <1>0, <2>1 DEF PeerRecord, Task
  <2> HIDE DEF w
  <2>4. PeerOK(w) /\ (RunsIn(w) => RunsIn(peer[p]))
    BY <1>0, <2>1, <2>3 DEF PeerOK, RunsIn
  <2> QED BY <2>2, <2>3, <2>4, ChangeKeeps
<1>2. CASE Converted(p)
  <2> DEFINE w == [peer[p] EXCEPT !.sampler = "running"]
  <2>1. Change(p, w) /\ peer[p].sampler = "converting"
    BY <1>2 DEF Converted
  <2>2. /\ w \in PeerRecord
        /\ w.receiver = peer[p].receiver /\ w.sampler = "running" /\ w.offer = peer[p].offer
        /\ w.latest = peer[p].latest /\ w.ready = peer[p].ready
    BY <1>0 DEF PeerRecord, Task
  <2> HIDE DEF w
  <2>3. PeerOK(w) /\ (RunsIn(w) => RunsIn(peer[p]))
    BY <1>0, <2>1, <2>2 DEF PeerOK, RunsIn
  <2> QED BY <2>1, <2>2, <2>3, ChangeKeeps
<1>3. CASE SamplerFails(p)
  <2> DEFINE w == [peer[p] EXCEPT !.sampler = "ended", !.scheduled = TRUE]
  <2>1. Change(p, w) /\ peer[p].sampler = "converting"
    BY <1>3 DEF SamplerFails
  <2>2. /\ w \in PeerRecord
        /\ w.receiver = peer[p].receiver /\ w.sampler = "ended" /\ w.offer = peer[p].offer
        /\ w.latest = peer[p].latest /\ w.ready = peer[p].ready
    BY <1>0 DEF PeerRecord, Task
  <2> HIDE DEF w
  <2>3. PeerOK(w) /\ (RunsIn(w) => RunsIn(peer[p]))
    BY <1>0, <2>1, <2>2 DEF PeerOK, RunsIn
  <2> QED BY <2>1, <2>2, <2>3, ChangeKeeps
<1>4. CASE SamplerCancelled(p)
  <2> DEFINE w == [peer[p] EXCEPT !.sampler = "ended"]
  <2>1. Change(p, w) /\ peer[p].sampler = "cancelled"
    BY <1>4 DEF SamplerCancelled
  <2>2. /\ w \in PeerRecord
        /\ w.receiver = peer[p].receiver /\ w.sampler = "ended" /\ w.offer = peer[p].offer
        /\ w.latest = peer[p].latest /\ w.ready = peer[p].ready
    BY <1>0 DEF PeerRecord, Task
  <2> HIDE DEF w
  <2>3. PeerOK(w) /\ (RunsIn(w) => RunsIn(peer[p]))
    BY <1>0, <2>1, <2>2 DEF PeerOK, RunsIn
  <2> QED BY <2>1, <2>2, <2>3, ChangeKeeps
<1> QED BY <1>1, <1>2, <1>3, <1>4 DEF SampleStep

-----------------------------------------------------------------------------
(* A new peer: the one before it is cancelled with the same step.          *)
LEMMA OfferKeeps ==
  ASSUME PeersOK, NodeOK, NEW r \in Registered, Offer(r)
  PROVE  PeersOK'
<1> DEFINE p == Cardinality(Offered) + 1
<1>1. PICK n \in 0 .. MaxPeers : peer \in [1 .. n -> PeerRecord]
  BY DEF PeersOK
<1>2. n \in Nat /\ Offered = 1 .. n /\ p = n + 1
  BY <1>1, Counted, PeersAssumption DEF Offered
<1>3. p \in Peer /\ owner' = p
  BY DEF Offer
<1>4. owner \in Offered \cup {0} /\ r \in Registration
  BY OwnerIsOffered, PeersAssumption DEF NodeOK, Registered, Registration
<1>5. peer' = [q \in 1 .. p |-> IF q = p THEN NewPeer(r)
                                ELSE IF q = owner THEN CancelTasks(peer[q]) ELSE peer[q]]
  BY DEF Offer
<1>6. closing' \in Closings
  <2>1. CASE owner = 0
    BY <2>1 DEF Offer, PeersOK
  <2>2. CASE owner # 0
    <3>1. owner \in Peer
      BY <2>2, <1>4, OwnerIsOffered
    <3>2. Closing(owner, "offer")
      BY <2>2 DEF Offer
    <3> QED BY <3>1, <3>2, ClosingTyped DEF Closer
  <2> QED BY <2>1, <2>2
<1>7. PeerOK(NewPeer(r))
  <2>1. owner \in 0 .. MaxPeers
    BY DEF PeersOK
  <2>2. NewPeer(r) \in PeerRecord
    BY <1>4, <2>1 DEF NewPeer, PeerRecord, Negotiating, Task
  <2> QED BY <2>2 DEF PeerOK, NewPeer
<1> HIDE DEF p
<1>8. Offered' = 1 .. (n + 1) /\ Cardinality(Offered') = n + 1
  <2>1. Offered' = 1 .. (n + 1)
    BY <1>2, <1>5 DEF Offered
  <2> QED BY <2>1, <1>2, FS_Interval
<1>9. ASSUME NEW q \in 1 .. (n + 1)
      PROVE  PeerOK(peer'[q]) /\ Cared(q, peer'[q], owner')
  <2>1. CASE q = p
    BY <2>1, <1>2, <1>3, <1>5, <1>7 DEF Cared
  <2>2. CASE q # p /\ q = owner
    <3>1. peer'[q] = CancelTasks(peer[q]) /\ q \in Offered
      BY <2>2, <1>2, <1>4, <1>5
    <3>2. PeerOK(peer[q])
      BY <3>1, PeerWasOK
    <3> QED BY <3>1, <3>2, CancelledOK DEF Cared
  <2>3. CASE q # p /\ q # owner
    <3>1. peer'[q] = peer[q] /\ q \in Offered
      BY <2>3, <1>2, <1>5
    <3>2. PeerOK(peer[q]) /\ Cared(q, peer[q], owner)
      BY <3>1, PeerWasOK
    <3> QED BY <3>1, <3>2, <2>3 DEF Cared
  <2> QED BY <2>1, <2>2, <2>3
<1>10. peer' \in [1 .. (n + 1) -> PeerRecord]
  BY <1>9, <1>5, <1>2 DEF PeerOK
<1>11. n + 1 \in 0 .. MaxPeers /\ owner' \in 0 .. MaxPeers /\ owner' = Cardinality(Offered')
  BY <1>2, <1>3, <1>8, PeersAssumption DEF Peer
<1> QED BY <1>6, <1>8, <1>9, <1>10, <1>11 DEF PeersOK

LEMMA SocketSteps ==
  ASSUME PeersOK, NodeOK, NEW r \in Registered, SocketStep(r)
  PROVE  PeersOK'
<1>1. CASE SocketEnds(r)
  <2>1. CASE owner # 0 /\ peer[owner].by = r
    <3>1. owner \in Offered /\ PeerOK(peer[owner]) /\ BeginClose(owner, "socket", peer[owner])
      BY <1>1, <2>1, OwnerIsOffered, PeerWasOK DEF SocketEnds
    <3> QED BY <3>1, CloseBegins DEF Closer
  <2>2. CASE ~(owner # 0 /\ peer[owner].by = r)
    <3>1. UNCHANGED <<owner, peer, closing>>
      BY <1>1, <2>2 DEF SocketEnds
    <3> QED BY <3>1 DEF PeersOK, Offered
  <2> QED BY <2>1, <2>2
<1>2. CASE SocketGone(r)
  BY <1>2 DEF SocketGone, PeersOK, Offered
<1>3. CASE StopVideo(r)
  <2>1. owner \in Offered /\ PeerOK(peer[owner]) /\ BeginClose(owner, "socket", peer[owner])
    BY <1>3, OwnerIsOffered, PeerWasOK DEF StopVideo
  <2> QED BY <2>1, CloseBegins DEF Closer
<1>4. CASE Offer(r)
  BY <1>4, OfferKeeps
<1> QED BY <1>1, <1>2, <1>3, <1>4 DEF SocketStep

(* Sessions and sockets.                                                   *)
LEMMA NodeSteps ==
  ASSUME NodeOK,
         \/ Register \/ SessionEnds \/ SwitchStream
         \/ \E r \in Registered : SocketStep(r)
         \/ UNCHANGED <<current, streaming, socket>>
  PROVE  NodeOK'
<1>1. PICK n \in 0 .. MaxRegistrations : socket \in [1 .. n -> {"open", "closing", "gone"}]
  BY DEF NodeOK
<1>2. n \in Nat /\ Registered = 1 .. n /\ Cardinality(Registered) = n
  <2>1. n \in Nat
    BY PeersAssumption
  <2> QED BY <1>1, <2>1, Counted DEF Registered
<1>3. CASE Register
  <2>1. n + 1 \in 0 .. MaxRegistrations
    BY <1>2, <1>3, PeersAssumption DEF Register, Registration
  <2>2. current' = n + 1 /\ streaming' \in BOOLEAN
    BY <1>2, <1>3 DEF Register
  <2>3. socket' \in [1 .. (n + 1) -> {"open", "closing", "gone"}]
    BY <1>1, <1>2, <1>3 DEF Register
  <2> QED BY <1>2, <2>1, <2>2, <2>3 DEF NodeOK, Registered
<1>4. CASE SessionEnds
  BY <1>4, PeersAssumption DEF SessionEnds, NodeOK, Registered
<1>5. CASE SwitchStream
  BY <1>5 DEF SwitchStream, NodeOK, Registered
<1>6. ASSUME NEW r \in Registered, SocketStep(r)
      PROVE  NodeOK'
  <2>1. CASE SocketEnds(r)
    <3>1. socket' \in [1 .. n -> {"open", "closing", "gone"}]
      BY <1>1, <2>1 DEF SocketEnds
    <3>2. current' = current /\ streaming' = streaming /\ Registered' = Registered
      BY <1>2, <2>1, <3>1 DEF SocketEnds, Registered
    <3> QED BY <3>1, <3>2 DEF NodeOK
  <2>2. CASE SocketGone(r)
    <3>1. socket' \in [1 .. n -> {"open", "closing", "gone"}]
      BY <1>1, <2>2 DEF SocketGone
    <3>2. current' \in {0, current} /\ streaming' = streaming /\ Registered' = Registered
      BY <1>2, <2>2, <3>1 DEF SocketGone, Registered
    <3> QED BY <3>1, <3>2, PeersAssumption DEF NodeOK
  <2>3. CASE StopVideo(r) \/ Offer(r)
    <3>1. UNCHANGED <<current, streaming, socket>>
      BY <2>3 DEF StopVideo, Offer
    <3> QED BY <3>1 DEF NodeOK, Registered
  <2> QED BY <1>6, <2>1, <2>2, <2>3 DEF SocketStep
<1>7. CASE UNCHANGED <<current, streaming, socket>>
  BY <1>7 DEF NodeOK, Registered
<1> QED BY <1>3, <1>4, <1>5, <1>6, <1>7

LEMMA PeerStepsLeaveNode ==
  ASSUME NEW p, CloseStep(p) \/ OfferStep(p) \/ OfferFault(p) \/ MediaStep(p) \/ SampleStep(p)
  PROVE  UNCHANGED <<current, streaming, socket>>
BY DEF CloseStep, CleanupBegins, TasksGathered, ConnectionClosed, OfferStep, OldClosed, Track,
       RemoteDescribed, LocallyDescribed, FailureEnds, OfferFault, NegotiationFails,
       ReplacingTimesOut, MediaStep, Receive, ReceiverEnds, TrackEnds, ConnectionFails, Change,
       SampleStep, TakeFrame, Converted, SamplerFails, SamplerCancelled

LEMMA PeersInvInitially == PeersInit => NodeOK /\ PeersOK
<1> SUFFICES ASSUME PeersInit PROVE NodeOK /\ PeersOK
  OBVIOUS
<1>1. NodeOK
  <2>1. socket \in [1 .. 0 -> {"open", "closing", "gone"}]
    BY DEF PeersInit
  <2>2. 0 \in 0 .. MaxRegistrations
    BY PeersAssumption
  <2>3. current = 0 /\ streaming = FALSE
    BY DEF PeersInit
  <2> QED BY <2>1, <2>2, <2>3 DEF NodeOK
<1>2. PeersOK
  <2>1. peer \in [1 .. 0 -> PeerRecord] /\ Offered = {}
    BY DEF PeersInit, Offered
  <2>2. closing \in Closings
    BY DEF PeersInit, Closings
  <2>3. 0 \in 0 .. MaxPeers /\ owner = 0
    BY PeersAssumption DEF PeersInit
  <2> QED BY <2>1, <2>2, <2>3 DEF PeersOK
<1> QED BY <1>1, <1>2

LEMMA PeersInvAlways == PeersSpec => [](NodeOK /\ PeersOK)
<1>1. ASSUME NodeOK /\ PeersOK, [PeersNext]_peersVars
      PROVE  (NodeOK /\ PeersOK)'
  <2>1. CASE Register \/ SessionEnds \/ SwitchStream
    <3>1. UNCHANGED <<owner, peer, closing>>
      BY <2>1 DEF Register, SessionEnds, SwitchStream
    <3>2. PeersOK'
      BY <1>1, <3>1 DEF PeersOK, Offered
    <3> QED BY <1>1, <2>1, <3>2, NodeSteps
  <2>2. ASSUME NEW r \in Registered, SocketStep(r)
        PROVE  (NodeOK /\ PeersOK)'
    BY <1>1, <2>2, NodeSteps, SocketSteps
  <2>3. ASSUME NEW p \in Offered,
               CloseStep(p) \/ OfferStep(p) \/ OfferFault(p) \/ MediaStep(p) \/ SampleStep(p)
        PROVE  (NodeOK /\ PeersOK)'
    <3>1. NodeOK'
      BY <1>1, <2>3, PeerStepsLeaveNode, NodeSteps
    <3>2. PeersOK'
      BY <1>1, <2>3, ClosingSteps, OfferSteps, OfferFaults, MediaSteps, SampleSteps
    <3> QED BY <3>1, <3>2
  <2>4. CASE UNCHANGED peersVars
    BY <1>1, <2>4 DEF peersVars, NodeOK, PeersOK, Offered, Registered
  <2> QED BY <1>1, <2>1, <2>2, <2>3, <2>4 DEF PeersNext
<1> QED BY <1>1, PeersInvInitially, PTL DEF PeersSpec

(***************************************************************************)
(* The types, and that the peer a node has is its newest one or none, for  *)
(* any number of registrations and offers.                                 *)
(***************************************************************************)
THEOREM PeersTypesAlways == PeersSpec => []PeersTypeOK
<1>1. NodeOK /\ PeersOK => PeersTypeOK
  BY DEF NodeOK, PeersOK, PeersTypeOK, Closings
<1> QED BY <1>1, PeersInvAlways, PTL

(***************************************************************************)
(* No receiver and no sampler runs on unowned, however offers, failures,   *)
(* replacements and ends of sockets fall.                                  *)
(***************************************************************************)
THEOREM NoOrphanTaskEver == PeersSpec => []NoOrphanTask
<1>1. NodeOK /\ PeersOK => NoOrphanTask
  BY DEF PeersOK, Cared, NoOrphanTask, Running, RunsIn
<1> QED BY <1>1, PeersInvAlways, PTL

(***************************************************************************)
(* No frame waits for a sampler that was not woken.                        *)
(***************************************************************************)
THEOREM WaitingFrameAlwaysAnnounced == PeersSpec => []WaitingFrameIsAnnounced
<1>1. NodeOK /\ PeersOK => WaitingFrameIsAnnounced
  BY DEF PeersOK, PeerOK, WaitingFrameIsAnnounced
<1> QED BY <1>1, PeersInvAlways, PTL

-----------------------------------------------------------------------------
(* The desktop program.                                                    *)

(* What the configuration in use has been through at each stage.           *)
FromProfile == profile.state = "whole" /\ profile.config = config

DesktopInv ==
  /\ working \subseteq Answering(config)
  /\ stage = "reuse" => FromProfile
  /\ stage \in {"save", "writing", "check"} => Streams = Lane
  /\ stage \in {"launch"} \cup InLoop => Streams = Lane \/ FromProfile
  /\ stage \in InLoop => \A l \in Streams : config.sources[l] \notin Bare
  /\ stage = "logged" => audited
  /\ device = "last" => audited

LEMMA WizardAsksForEveryLane ==
  ASSUME NEW cfg \in WizardConfigs
  PROVE  DOMAIN cfg.sources = Lane
BY DEF WizardConfigs, MobileCameras, UsbCameras, RtspCameras, OneWebcam, DemoVideos

(* CameraManager lets no mistyped address through.                         *)
LEMMA NoBareSource ==
  ASSUME working \subseteq Answering(config), FilesExist(config, working)
  PROVE  \A l \in Streams : config.sources[l] \notin Bare
BY DEF Answering, FilesExist, Streams

LEMMA ExitKeeps ==
  ASSUME DesktopInv, Exit, UNCHANGED <<profile, logVars>>
  PROVE  DesktopInv'
<1>1. /\ stage' = "off" /\ working' = {}
      /\ audited' = audited /\ device' = device
  BY DEF Exit, logVars
<1> QED BY <1>1 DEF DesktopInv, InLoop

LEMMA DesktopInvInitially == Init => DesktopInv
BY DEF Init, CamerasInit, DesktopInv, InLoop

LEMMA StartSteps ==
  ASSUME DesktopInv, Start \/ AcceptProfile \/ DeclineProfile \/ Wizard
  PROVE  DesktopInv'
<1>1. CASE Start
  BY <1>1 DEF Start, DesktopInv, InLoop, Loaded, FromProfile, logVars
<1>2. CASE AcceptProfile
  BY <1>2 DEF AcceptProfile, DesktopInv, InLoop, FromProfile, logVars, cameraVars, Streams
<1>3. CASE DeclineProfile
  BY <1>3 DEF DeclineProfile, DesktopInv, InLoop, FromProfile, logVars, cameraVars, Streams
<1>4. CASE Wizard
  <2>1. Streams' = Lane /\ working' \subseteq Answering(config)'
    BY <1>4, WizardAsksForEveryLane DEF Wizard, Streams, Answering
  <2>2. stage' = "save" /\ UNCHANGED <<audited, device>>
    BY <1>4 DEF Wizard, logVars
  <2> QED BY <2>1, <2>2 DEF DesktopInv, InLoop
<1> QED BY <1>1, <1>2, <1>3, <1>4

LEMMA SaveSteps ==
  ASSUME DesktopInv, SaveRefused \/ BeginSave \/ EndSave \/ CheckNew
  PROVE  DesktopInv'
<1>1. CASE CheckNew /\ Exit
  BY <1>1, ExitKeeps DEF CheckNew
<1>2. CASE CheckNew /\ ~Exit
  BY <1>2 DEF CheckNew, DesktopInv, InLoop, FromProfile, logVars, cameraVars, Streams
<1>3. CASE SaveRefused \/ BeginSave \/ EndSave
  <2>1. /\ UNCHANGED <<cameraVars, logVars>> /\ stage' \in {"check", "writing"}
        /\ stage \in {"save", "writing"}
    BY <1>3 DEF SaveRefused, BeginSave, EndSave
  <2> QED BY <2>1 DEF DesktopInv, InLoop, logVars, cameraVars, Streams
<1> QED BY <1>1, <1>2, <1>3

LEMMA LaunchSteps ==
  ASSUME DesktopInv, LaunchRefused \/ Launch
  PROVE  DesktopInv'
<1>1. CASE LaunchRefused
  BY <1>1, ExitKeeps DEF LaunchRefused
<1>2. CASE Launch
  <2>1. \A l \in Streams : config.sources[l] \notin Bare
    BY <1>2, NoBareSource DEF Launch, DesktopInv
  <2>2. stage = "launch" /\ stage' = "loop" /\ UNCHANGED <<config, working, profile, audited, device>>
    BY <1>2 DEF Launch, logVars
  <2> QED BY <2>1, <2>2 DEF DesktopInv, InLoop, Streams, FromProfile
<1> QED BY <1>1, <1>2

(* A grant makes what the device took an older phase; it takes the new one *)
(* after the loggers.                                                      *)
LEMMA LoopSteps ==
  ASSUME DesktopInv, Step \/ StepGrants \/ NoStreams \/ LogDecision \/ SendCommand \/ LeaveLoop
  PROVE  DesktopInv'
<1>1. /\ UNCHANGED <<config, working, profile>>
      /\ stage \in InLoop /\ stage' \in InLoop \cup {"closing"}
  BY DEF Step, StepGrants, NoStreams, LogDecision, SendCommand, LeaveLoop, InLoop, cameraVars
<1>2. /\ stage' = "logged" => audited'
      /\ device' = "last" => audited'
  BY DEF Step, StepGrants, NoStreams, LogDecision, SendCommand, LeaveLoop, logVars, DesktopInv,
         SendAccepted, SendRefused
<1> QED BY <1>1, <1>2 DEF DesktopInv, InLoop, Streams, FromProfile

LEMMA DesktopInvAlways == Spec => []DesktopInv
<1>1. ASSUME DesktopInv, [Next]_vars
      PROVE  DesktopInv'
  <2>1. CASE Release \/ Killed
    BY <1>1, <2>1, ExitKeeps DEF Release, Killed
  <2>2. CASE WorldChanges
    <3>1. PICK s \in Answering(config) :
            working' = IF s \in working THEN working \ {s} ELSE working \cup {s}
      BY <2>2 DEF WorldChanges, SourceChanges
    <3>2. UNCHANGED <<config, stage, profile, audited, device>>
      BY <2>2 DEF WorldChanges, SourceChanges, logVars
    <3>3. working' \subseteq Answering(config)'
      BY <1>1, <3>1, <3>2 DEF DesktopInv, Answering
    <3> QED BY <1>1, <3>2, <3>3 DEF DesktopInv, Streams, FromProfile, InLoop
  <2>3. CASE UNCHANGED vars
    BY <1>1, <2>3 DEF vars, cameraVars, logVars, DesktopInv, Streams, FromProfile, Answering, InLoop
  <2> QED
    BY <1>1, <2>1, <2>2, <2>3, StartSteps, SaveSteps, LaunchSteps, LoopSteps DEF Next
<1> QED BY <1>1, DesktopInvInitially, PTL DEF Spec

(***************************************************************************)
(* The loop runs on a source for every approach, or on what a whole        *)
(* profile says, and never on a mistyped address: for any approaches and   *)
(* sources, and whatever a crash has left of the profile.                  *)
(***************************************************************************)
THEOREM AlwaysRunsAsConfigured == Spec => []RunsAsConfigured
<1>1. DesktopInv => RunsAsConfigured
  BY DEF DesktopInv, RunsAsConfigured, FromProfile
<1> QED BY <1>1, DesktopInvAlways, PTL

(***************************************************************************)
(* Wherever the process is killed, the phase that the device took is one   *)
(* that the loggers were given before.                                     *)
(***************************************************************************)
THEOREM SentAlwaysLogged == Spec => []SentIsLogged
<1>1. DesktopInv => SentIsLogged
  BY DEF DesktopInv, SentIsLogged
<1> QED BY <1>1, DesktopInvAlways, PTL
=============================================================================
