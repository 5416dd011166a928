------------------------- MODULE CommandBridgeProofs -------------------------
(***************************************************************************)
(* The promise of the two-container deployment to its operator, for any    *)
(* number of requests, of polls and of faults.                             *)
(***************************************************************************)
EXTENDS CommandBridge, FiniteSetTheorems, TLAPS

(***************************************************************************)
(* The inductive invariant.  InboxOrdered puts the commands the server has *)
(* carried out, the one in hand and those that wait in the order of their  *)
(* publications, so that none of them is there twice.                      *)
(***************************************************************************)
Types ==
  /\ client \in [Request -> Outcome]
  /\ order \in [Request -> Nat]
  /\ inbox \in Seq(Request)
  /\ holding \in Request \cup {Nobody}
  /\ result \in Answer \cup {"none"}
  /\ reply \in [Request -> Answer \cup {"none"}]
  /\ runs \in [Request -> {0, 1}]

(* A command that may still run was published, and not refused.            *)
Open(r) == order[r] > 0 /\ client[r] \notin {"idle", "refused"}

RunsOnce ==
  /\ \A r \in Request : client[r] \in {"idle", "refused"} => runs[r] = 0
  /\ \A r \in Request : client[r] = "idle" => order[r] = 0
  /\ \A i \in 1 .. Len(inbox) : Open(inbox[i]) /\ runs[inbox[i]] = 0
  /\ holding # Nobody => Open(holding) /\ (result = "none" => runs[holding] = 0)

SuccessIsTrue ==
  /\ result # "none" => holding # Nobody
  /\ result = "SUCCESS" => runs[holding] = 1
  /\ \A r \in Request : reply[r] = "SUCCESS" \/ client[r] = "success" => runs[r] = 1

InboxOrdered ==
  /\ \A r \in Request : order[r] <= Cardinality(Published)
  /\ \A i, j \in 1 .. Len(inbox) : i < j => order[inbox[i]] < order[inbox[j]]
  /\ holding # Nobody => \A i \in 1 .. Len(inbox) : order[holding] < order[inbox[i]]
  /\ \A r \in Request : runs[r] = 1 =>
       /\ \A i \in 1 .. Len(inbox) : order[r] < order[inbox[i]]
       /\ holding # Nobody /\ holding # r => order[r] < order[holding]

BridgeInv == Types /\ RunsOnce /\ SuccessIsTrue /\ InboxOrdered

-----------------------------------------------------------------------------
(* A publication is the newest one.                                        *)
LEMMA PublishedGrows ==
  ASSUME Types, NEW r \in Request, order[r] = 0,
         order' = [order EXCEPT ![r] = Cardinality(Published) + 1]
  PROVE  /\ Cardinality(Published) \in Nat
         /\ Cardinality(Published') = Cardinality(Published) + 1
<1>1. Published \subseteq Request /\ r \notin Published
  BY DEF Published
<1>2. IsFiniteSet(Published)
  BY <1>1, BridgeAssumption, FS_Subset
<1>3. Cardinality(Published) \in Nat
  BY <1>2, FS_CardinalityType
<1>4. Published' = Published \cup {r}
  <2>1. \A q \in Request : order'[q] = IF q = r THEN Cardinality(Published) + 1 ELSE order[q]
    BY DEF Types
  <2>2. Cardinality(Published) + 1 > 0
    BY <1>3
  <2>3. \A q \in Request : order'[q] > 0 <=> order[q] > 0 \/ q = r
    BY <2>1, <2>2
  <2> QED BY <2>3 DEF Published
<1> QED BY <1>1, <1>2, <1>3, <1>4, FS_AddElement

LEMMA BridgeInitially == Init => BridgeInv
<1> SUFFICES ASSUME Init PROVE BridgeInv
  OBVIOUS
<1>1. Types
  BY DEF Init, Types, Outcome, Answer
<1>2. Len(inbox) = 0 /\ holding = Nobody /\ result = "none"
  BY DEF Init
<1>3. \A r \in Request : runs[r] = 0 /\ order[r] = 0 /\ reply[r] = "none" /\ client[r] = "idle"
  BY DEF Init
<1>4. Published = {}
  BY <1>3 DEF Published
<1>5. Cardinality(Published) = 0
  BY <1>4, FS_EmptySet
<1>6. RunsOnce /\ SuccessIsTrue
  BY <1>2, <1>3 DEF RunsOnce, SuccessIsTrue
<1>7. InboxOrdered
  BY <1>2, <1>3, <1>5 DEF InboxOrdered
<1> QED BY <1>1, <1>6, <1>7 DEF BridgeInv

(* The steps of the backend that publish.                                  *)
LEMMA IssueKeeps ==
  ASSUME BridgeInv, NEW r \in Request, Issue(r) \/ IssueFails(r)
  PROVE  BridgeInv'
<1>1. /\ client[r] = "idle" /\ order[r] = 0 /\ runs[r] = 0 /\ holding # r
      /\ UNCHANGED <<holding, result, reply, runs>>
  <2>1. client[r] = "idle" /\ UNCHANGED <<holding, result, reply, runs>>
    BY DEF Issue, IssueFails
  <2> QED BY <2>1, BridgeAssumption DEF BridgeInv, RunsOnce, Open
<1>2. PICK outcome \in {"waiting", "refused", "failed"} :
        client' = [client EXCEPT ![r] = outcome]
  BY DEF Issue, IssueFails, Becomes
<1>3. /\ client' \in [Request -> Outcome]
      /\ client'[r] = outcome
      /\ \A q \in Request : q # r => client'[q] = client[q]
  BY <1>2 DEF BridgeInv, Types, Outcome
<1>4. CASE UNCHANGED <<inbox, order>>
  <2>1. Published' = Published
    BY <1>4 DEF Published
  <2>2. \A q \in Request : Open(q) => Open(q)'
    BY <1>1, <1>3, <1>4 DEF Open
  <2>3. Types'
    BY <1>1, <1>3, <1>4 DEF BridgeInv, Types
  <2>4. RunsOnce'
    BY <1>1, <1>3, <1>4, <2>2 DEF BridgeInv, Types, RunsOnce
  <2>5. SuccessIsTrue'
    BY <1>1, <1>2, <1>3 DEF BridgeInv, SuccessIsTrue
  <2>6. InboxOrdered'
    BY <1>1, <1>4, <2>1 DEF BridgeInv, InboxOrdered
  <2> QED BY <2>3, <2>4, <2>5, <2>6 DEF BridgeInv
<1>5. CASE Deliver(r)
  <2>1. /\ order' = [order EXCEPT ![r] = Cardinality(Published) + 1]
        /\ \/ inbox' = inbox
           \/ inbox' = Append(inbox, r) /\ outcome # "refused"
    <3>1. CASE Issue(r)
      BY <1>3, <1>5, <3>1 DEF Deliver, Issue, Becomes, BridgeInv, Types
    <3>2. CASE IssueFails(r)
      BY <1>3, <1>5, <3>2 DEF Deliver, IssueFails, Becomes, BridgeInv, Types
    <3> QED BY <3>1, <3>2
  <2> DEFINE n == Cardinality(Published)
  <2>2. n \in Nat /\ Cardinality(Published') = n + 1
    BY <1>1, <2>1, PublishedGrows DEF BridgeInv
  <2>3. order' \in [Request -> Nat] /\ order'[r] = n + 1
        /\ \A q \in Request : q # r => order'[q] = order[q]
    BY <2>1, <2>2 DEF BridgeInv, Types
  <2>4. /\ inbox' \in Seq(Request)
        /\ Len(inbox') \in Nat /\ Len(inbox) \in Nat /\ Len(inbox) <= Len(inbox')
        /\ \A i \in 1 .. Len(inbox) : inbox'[i] = inbox[i] /\ inbox[i] \in Request /\ inbox[i] # r
        /\ \A i \in 1 .. Len(inbox') : i \in 1 .. Len(inbox)
             \/ (inbox'[i] = r /\ i = Len(inbox) + 1 /\ outcome # "refused")
    <3>1. \A i \in 1 .. Len(inbox) : inbox[i] # r
      BY <1>1 DEF BridgeInv, RunsOnce, Open
    <3>2. CASE inbox' = inbox
      BY <3>1, <3>2 DEF BridgeInv, Types
    <3>3. CASE inbox' = Append(inbox, r) /\ outcome # "refused"
      BY <3>1, <3>3 DEF BridgeInv, Types
    <3> QED BY <2>1, <3>2, <3>3
  <2> HIDE DEF n
  <2>5. \A q \in Request : order[q] \in Nat /\ order[q] <= n
    BY DEF n, BridgeInv, Types, InboxOrdered
  <2>6. Types'
    BY <1>1, <1>3, <2>3, <2>4 DEF BridgeInv, Types
  <2>7. \A q \in Request : q # r /\ Open(q) => Open(q)'
    BY <1>3, <2>3 DEF Open
  <2>8. outcome # "refused" => Open(r)'
    BY <1>2, <1>3, <2>2, <2>3 DEF Open
  <2>9. RunsOnce'
    <3>1. \A q \in Request : client'[q] \in {"idle", "refused"} => runs'[q] = 0
      BY <1>1, <1>3 DEF BridgeInv, RunsOnce
    <3>2. \A q \in Request : client'[q] = "idle" => order'[q] = 0
      BY <1>2, <1>3, <2>3 DEF BridgeInv, RunsOnce
    <3>3. ASSUME NEW i \in 1 .. Len(inbox')
          PROVE  /\ order'[inbox'[i]] > 0 /\ client'[inbox'[i]] \notin {"idle", "refused"}
                 /\ runs'[inbox'[i]] = 0
      <4>1. CASE i \in 1 .. Len(inbox)
        <5>1. Open(inbox[i]) /\ runs[inbox[i]] = 0
          BY <4>1 DEF BridgeInv, RunsOnce
        <5> QED BY <1>1, <2>4, <2>7, <4>1, <5>1 DEF Open
      <4>2. CASE i \notin 1 .. Len(inbox)
        BY <1>1, <2>4, <2>8, <4>2 DEF Open
      <4> QED BY <4>1, <4>2
    <3>4. holding' # Nobody => Open(holding)' /\ (result' = "none" => runs'[holding'] = 0)
      BY <1>1, <2>7 DEF BridgeInv, Types, RunsOnce
    <3> QED BY <3>1, <3>2, <3>3, <3>4 DEF RunsOnce, Open
  <2>10. SuccessIsTrue'
    BY <1>1, <1>2, <1>3 DEF BridgeInv, SuccessIsTrue
  <2>11. InboxOrdered'
    <3>1. \A q \in Request : order'[q] <= Cardinality(Published')
      BY <2>2, <2>3, <2>5
    <3>2. \A i \in 1 .. Len(inbox) : order'[inbox'[i]] = order[inbox[i]]
      BY <2>3, <2>4
    <3>3. \A i, j \in 1 .. Len(inbox') : i < j => order'[inbox'[i]] < order'[inbox'[j]]
      <4> SUFFICES ASSUME NEW i \in 1 .. Len(inbox'), NEW j \in 1 .. Len(inbox'), i < j
                   PROVE  order'[inbox'[i]] < order'[inbox'[j]]
        OBVIOUS
      <4>1. i \in 1 .. Len(inbox)
        BY <2>4
      <4>2. CASE j \in 1 .. Len(inbox)
        BY <3>2, <4>1, <4>2 DEF BridgeInv, InboxOrdered
      <4>3. CASE j \notin 1 .. Len(inbox)
        <5>1. /\ order'[inbox'[i]] = order[inbox[i]]
              /\ order[inbox[i]] \in Nat /\ order[inbox[i]] <= n
          BY <2>4, <2>5, <3>2, <4>1
        <5>2. order'[inbox'[j]] = n + 1
          BY <2>3, <2>4, <4>3
        <5> QED BY <2>2, <5>1, <5>2
      <4> QED BY <4>2, <4>3
    <3>4. ASSUME NEW q \in Request, q # r, NEW i \in 1 .. Len(inbox'),
                 i \in 1 .. Len(inbox) => order[q] < order[inbox[i]]
          PROVE  order'[q] < order'[inbox'[i]]
      <4>1. order'[q] = order[q] /\ order[q] \in Nat /\ order[q] <= n
        BY <2>3, <2>5, <3>4
      <4>2. CASE i \in 1 .. Len(inbox)
        BY <3>2, <3>4, <4>1, <4>2
      <4>3. CASE i \notin 1 .. Len(inbox)
        BY <2>2, <2>3, <2>4, <4>1, <4>3
      <4> QED BY <4>2, <4>3
    <3>5. holding' # Nobody => \A i \in 1 .. Len(inbox') : order'[holding'] < order'[inbox'[i]]
      <4> SUFFICES ASSUME holding # Nobody, NEW i \in 1 .. Len(inbox')
                   PROVE  order'[holding] < order'[inbox'[i]]
        BY <1>1
      <4>1. holding \in Request /\ holding # r
        BY <1>1 DEF BridgeInv, Types
      <4>2. i \in 1 .. Len(inbox) => order[holding] < order[inbox[i]]
        BY DEF BridgeInv, InboxOrdered
      <4> QED BY <3>4, <4>1, <4>2
    <3>6. ASSUME NEW q \in Request, runs'[q] = 1
          PROVE  /\ \A i \in 1 .. Len(inbox') : order'[q] < order'[inbox'[i]]
                 /\ holding' # Nobody /\ holding' # q => order'[q] < order'[holding']
      <4>1. runs[q] = 1 /\ q # r
        BY <1>1, <3>6
      <4>2. ASSUME NEW i \in 1 .. Len(inbox') PROVE order'[q] < order'[inbox'[i]]
        <5>1. i \in 1 .. Len(inbox) => order[q] < order[inbox[i]]
          BY <4>1 DEF BridgeInv, InboxOrdered
        <5> QED BY <3>4, <4>1, <5>1
      <4>3. holding # Nobody /\ holding # q => order'[q] < order'[holding]
        <5>1. holding # Nobody => holding \in Request /\ order'[holding] = order[holding]
          BY <1>1, <2>3 DEF BridgeInv, Types
        <5> QED BY <2>3, <4>1, <5>1 DEF BridgeInv, InboxOrdered
      <4> QED BY <1>1, <4>2, <4>3
    <3> QED BY <3>1, <3>3, <3>5, <3>6 DEF InboxOrdered
  <2> QED BY <2>6, <2>9, <2>10, <2>11 DEF BridgeInv
<1> QED BY <1>4, <1>5 DEF Issue, IssueFails

(* The steps of the backend that ask for an answer.                        *)
LEMMA PollKeeps ==
  ASSUME BridgeInv, NEW r \in Request, Poll(r) \/ PollFails(r)
  PROVE  BridgeInv'
<1>1. /\ client[r] = "waiting"
      /\ UNCHANGED <<order, inbox, holding, result, reply, runs>>
  BY DEF Poll, PollFails, serverVars
<1>2. PICK outcome \in Outcome \ {"idle", "refused"} :
        /\ client' = [client EXCEPT ![r] = outcome]
        /\ outcome = "success" => reply[r] = "SUCCESS"
  <2>1. CASE Poll(r)
    BY <2>1 DEF Poll, Becomes, Outcome
  <2>2. CASE PollFails(r)
    <3>1. client' = [client EXCEPT ![r] = "failed"]
      BY <2>2 DEF PollFails, Becomes
    <3>2. "failed" \in Outcome \ {"idle", "refused"} /\ "failed" # "success"
      BY DEF Outcome
    <3> QED BY <3>1, <3>2
  <2> QED BY <2>1, <2>2
<1>3. /\ client' \in [Request -> Outcome]
      /\ \A q \in Request : client'[q] = IF q = r THEN outcome ELSE client[q]
  BY <1>2 DEF BridgeInv, Types
<1>4. \A q \in Request : /\ Open(q) => Open(q)'
                         /\ client'[q] \in {"idle", "refused"} => client'[q] = client[q]
  BY <1>1, <1>3 DEF Open
<1>5. Types'
  BY <1>1, <1>3 DEF BridgeInv, Types
<1>6. RunsOnce'
  <2>1. \A i \in 1 .. Len(inbox) : inbox[i] \in Request
    BY DEF BridgeInv, Types
  <2> QED BY <1>1, <1>4, <2>1 DEF BridgeInv, Types, RunsOnce, Open
<1>7. SuccessIsTrue'
  BY <1>1, <1>2, <1>3 DEF BridgeInv, SuccessIsTrue
<1>8. Published' = Published
  BY <1>1 DEF Published
<1>9. InboxOrdered'
  BY <1>1, <1>8 DEF BridgeInv, InboxOrdered
<1> QED BY <1>5, <1>6, <1>7, <1>9 DEF BridgeInv

(* The listener takes the oldest command.                                  *)
LEMMA TakeKeeps ==
  ASSUME BridgeInv, Take
  PROVE  BridgeInv'
<1>1. /\ holding = Nobody /\ inbox # <<>>
      /\ holding' = Head(inbox) /\ inbox' = Tail(inbox)
      /\ UNCHANGED <<client, order, result, reply, runs>>
  BY DEF Take, backendVars
<1>2. /\ Len(inbox) \in Nat \ {0} /\ holding' = inbox[1] /\ holding' \in Request
      /\ inbox' \in Seq(Request) /\ Len(inbox') = Len(inbox) - 1
      /\ \A i \in 1 .. Len(inbox') : inbox'[i] = inbox[i + 1] /\ i + 1 \in 1 .. Len(inbox)
  BY <1>1 DEF BridgeInv, Types
<1>3. 1 \in 1 .. Len(inbox) /\ \A i \in 1 .. Len(inbox') : 1 < i + 1
  BY <1>2
<1>4. Published' = Published
  BY <1>1 DEF Published
<1>5. result = "none" /\ holding' # Nobody
  BY <1>1, <1>2, BridgeAssumption DEF BridgeInv, SuccessIsTrue
<1>6. Types'
  BY <1>1, <1>2 DEF BridgeInv, Types
<1>7. RunsOnce'
  BY <1>1, <1>2, <1>3 DEF BridgeInv, RunsOnce, Open
<1>8. SuccessIsTrue'
  BY <1>1, <1>5 DEF BridgeInv, SuccessIsTrue
<1>9. InboxOrdered'
  <2>1. \A i, j \in 1 .. Len(inbox') : i < j => order[inbox'[i]] < order[inbox'[j]]
    <3> SUFFICES ASSUME NEW i \in 1 .. Len(inbox'), NEW j \in 1 .. Len(inbox'), i < j
                 PROVE  order[inbox'[i]] < order[inbox'[j]]
      OBVIOUS
    <3>1. i + 1 < j + 1
      OBVIOUS
    <3> QED BY <1>2, <3>1 DEF BridgeInv, InboxOrdered
  <2>2. \A i \in 1 .. Len(inbox') : order[holding'] < order[inbox'[i]]
    BY <1>2, <1>3 DEF BridgeInv, InboxOrdered
  <2>3. \A q \in Request : runs[q] = 1 =>
          /\ \A i \in 1 .. Len(inbox') : order[q] < order[inbox'[i]]
          /\ order[q] < order[holding']
    BY <1>2, <1>3 DEF BridgeInv, InboxOrdered
  <2> QED BY <1>1, <1>4, <2>1, <2>2, <2>3 DEF BridgeInv, InboxOrdered
<1> QED BY <1>6, <1>7, <1>8, <1>9 DEF BridgeInv

(* The command in hand runs, for the first time, or raises.                *)
LEMMA ApplyKeeps ==
  ASSUME BridgeInv, Apply
  PROVE  BridgeInv'
<1>1. /\ holding \in Request /\ result = "none" /\ runs[holding] = 0
      /\ UNCHANGED <<client, order, inbox, holding, reply>>
  BY DEF Apply, backendVars, BridgeInv, Types, RunsOnce
<1>2. \/ result' = "SUCCESS" /\ runs' = [runs EXCEPT ![holding] = 1]
      \/ result' = "ERROR" /\ runs' = runs
  BY <1>1 DEF Apply
<1>3. /\ runs' \in [Request -> {0, 1}] /\ result' \in Answer
      /\ result' = "SUCCESS" => runs'[holding] = 1
      /\ \A q \in Request : q # holding => runs'[q] = runs[q]
      /\ \A q \in Request : runs[q] = 1 => runs'[q] = 1
  BY <1>1, <1>2 DEF BridgeInv, Types, Answer
<1>4. Published' = Published
  BY <1>1 DEF Published
<1>5. /\ \A i \in 1 .. Len(inbox) : inbox[i] \in Request /\ inbox[i] # holding
      /\ holding # Nobody /\ Open(holding)
  <2>1. holding # Nobody
    BY <1>1, BridgeAssumption
  <2> QED BY <2>1 DEF BridgeInv, Types, RunsOnce, InboxOrdered
<1>6. Types'
  BY <1>1, <1>3 DEF BridgeInv, Types
<1>7. RunsOnce'
  <2>1. \A r \in Request : client[r] \in {"idle", "refused"} => runs'[r] = 0
    BY <1>3, <1>5 DEF BridgeInv, RunsOnce, Open
  <2>2. \A i \in 1 .. Len(inbox) : Open(inbox[i]) /\ runs'[inbox[i]] = 0
    BY <1>3, <1>5 DEF BridgeInv, RunsOnce
  <2> QED BY <1>1, <1>3, <1>5, <2>1, <2>2 DEF BridgeInv, RunsOnce, Open, Answer
<1>8. SuccessIsTrue'
  BY <1>1, <1>3, <1>5 DEF BridgeInv, SuccessIsTrue
<1>9. InboxOrdered'
  <2>1. ASSUME NEW q \in Request, runs'[q] = 1
        PROVE  /\ \A i \in 1 .. Len(inbox) : order[q] < order[inbox[i]]
               /\ holding # q => order[q] < order[holding]
    <3>1. CASE q = holding
      BY <1>5, <3>1 DEF BridgeInv, InboxOrdered
    <3>2. CASE q # holding
      BY <1>3, <1>5, <2>1, <3>2 DEF BridgeInv, InboxOrdered
    <3> QED BY <3>1, <3>2
  <2> QED BY <1>1, <1>4, <2>1 DEF BridgeInv, InboxOrdered
<1> QED BY <1>6, <1>7, <1>8, <1>9 DEF BridgeInv

(* The answer is written, and the subscription may be gone.                *)
LEMMA ListenerEndKeeps ==
  ASSUME BridgeInv, Answered \/ ListenerNotices \/ ListenerFails \/ ServerRestarts \/ Subscribe
  PROVE  BridgeInv'
<1>1. /\ UNCHANGED <<client, order, runs>>
      /\ inbox' = inbox \/ inbox' = <<>>
      /\ \/ holding' = Nobody /\ result' = "none"
         \/ UNCHANGED <<holding, result>>
  BY DEF Answered, ListenerNotices, ListenerFails, ServerRestarts, Subscribe, ListenerLeaves, backendVars
<1>2. \/ reply' = reply
      \/ /\ holding \in Request /\ reply' = [reply EXCEPT ![holding] = result]
         /\ result \in Answer \/ (result = "none" /\ holding = Nobody)
  BY DEF Answered, ListenerNotices, ListenerFails, ServerRestarts, Subscribe, ListenerLeaves,
         BridgeInv, Types
<1>3. /\ reply' \in [Request -> Answer \cup {"none"}]
      /\ \A q \in Request : reply'[q] = reply[q] \/ (q = holding /\ reply'[q] = result)
  BY <1>2 DEF BridgeInv, Types
<1>4. inbox' \in Seq(Request) /\ \A i \in 1 .. Len(inbox') : i \in 1 .. Len(inbox) /\ inbox' = inbox
  <2>1. CASE inbox' = inbox
    BY <2>1 DEF BridgeInv, Types
  <2>2. CASE inbox' = <<>>
    BY <2>2
  <2> QED BY <1>1, <2>1, <2>2
<1>5. Published' = Published
  BY <1>1 DEF Published
<1>6. Types'
  BY <1>1, <1>3, <1>4 DEF BridgeInv, Types
<1>7. RunsOnce'
  BY <1>1, <1>4 DEF BridgeInv, RunsOnce, Open
<1>8. SuccessIsTrue'
  BY <1>1, <1>3 DEF BridgeInv, SuccessIsTrue
<1>9. InboxOrdered'
  BY <1>1, <1>4, <1>5 DEF BridgeInv, InboxOrdered
<1> QED BY <1>6, <1>7, <1>8, <1>9 DEF BridgeInv

LEMMA BridgePreserved ==
  ASSUME BridgeInv, [Next]_vars
  PROVE  BridgeInv'
<1>1. CASE UNCHANGED <<client, order, inbox, holding, result, reply, runs>>
  <2>1. Published' = Published
    BY <1>1 DEF Published
  <2>2. Types' /\ RunsOnce' /\ SuccessIsTrue'
    BY <1>1 DEF BridgeInv, Types, RunsOnce, Open, SuccessIsTrue
  <2>3. InboxOrdered'
    BY <1>1, <2>1 DEF BridgeInv, InboxOrdered
  <2> QED BY <2>2, <2>3 DEF BridgeInv
<1>2. CASE BackendFails \/ BackendConnects \/ ServerConnects \/ TelemetryFails \/ UNCHANGED vars
  BY <1>1, <1>2 DEF BackendFails, BackendConnects, ServerConnects, TelemetryFails,
                    vars, backendVars, serverVars
<1> QED BY <1>2, IssueKeeps, PollKeeps, TakeKeeps, ApplyKeeps, ListenerEndKeeps DEF Next, Listen

(***************************************************************************)
(* Every state of the bridge satisfies the invariant.                      *)
(***************************************************************************)
THEOREM BridgeInvariant == Spec => []BridgeInv
BY BridgeInitially, BridgePreserved, PTL DEF Spec

-----------------------------------------------------------------------------
(***************************************************************************)
(* AcknowledgedIsLast, for any number of requests and faults: no command   *)
(* runs after the success of one that was published later.                 *)
(***************************************************************************)
THEOREM AcknowledgedAlwaysLast == Spec => AcknowledgedIsLast
<1>1. ASSUME BridgeInv, [Next]_vars, NEW r \in Request, NEW q \in Request,
             runs'[r] # runs[r], client[q] = "success"
      PROVE  order[q] < order[r]
  <2>1. Apply
    BY <1>1 DEF Next, Listen, Issue, IssueFails, Poll, PollFails, BackendFails, BackendConnects,
                ServerConnects, Subscribe, Take, Answered, ListenerNotices, ListenerFails,
                TelemetryFails, ServerRestarts, vars, serverVars
  <2>2. /\ holding \in Request /\ runs[holding] = 0
        /\ runs' = [runs EXCEPT ![holding] = @ + 1] \/ runs' = runs
    <3>1. holding # Nobody /\ result = "none"
          /\ (runs' = [runs EXCEPT ![holding] = @ + 1] \/ runs' = runs)
      BY <2>1 DEF Apply
    <3> QED BY <1>1, <3>1 DEF BridgeInv, Types, RunsOnce
  <2>3. r = holding
    BY <1>1, <2>2 DEF BridgeInv, Types
  <2>4. runs[q] = 1 /\ q # r /\ holding # Nobody
    BY <1>1, <2>2, <2>3, BridgeAssumption DEF BridgeInv, SuccessIsTrue
  <2> QED BY <1>1, <2>3, <2>4 DEF BridgeInv, InboxOrdered
<1>2. BridgeInv /\ [Next]_vars
        => [\A r, q \in Request :
              runs'[r] # runs[r] /\ client[q] = "success" => order[q] < order[r]]_vars
  BY <1>1
<1> QED BY <1>2, BridgeInvariant, PTL DEF Spec, AcknowledgedIsLast

(***************************************************************************)
(* ImplementsPromise: for any number of requests, polls and faults, a      *)
(* command runs at most once, a success is told of one that ran, and a     *)
(* refused one never runs.                                                 *)
(***************************************************************************)
ToldMap == [r \in Request |-> Told(r)]

LEMMA TellOne ==
  ASSUME NEW r \in Request, NEW outcome, client \in [Request -> Outcome],
         client' = [client EXCEPT ![r] = outcome]
  PROVE  ToldMap' = [ToldMap EXCEPT ![r] =
           CASE outcome \in {"idle", "waiting"} -> "nothing"
             [] outcome = "success" -> "success"
             [] outcome = "refused" -> "refused"
             [] OTHER -> "unknown"]
BY DEF ToldMap, Told

THEOREM PromiseKept == Spec => ImplementsPromise
<1>1. Init => Promise!Init
  <2> SUFFICES ASSUME Init PROVE Promise!Init
    OBVIOUS
  <2>1. ASSUME NEW r \in Request PROVE Told(r) = "nothing"
    BY DEF Init, Told
  <2> QED BY <2>1 DEF Init, Promise!Init
<1>2. ASSUME BridgeInv, [Next]_vars
      PROVE  [Promise!Next]_<<runs, ToldMap>>
  <2>1. ASSUME NEW r \in Request, Issue(r) \/ IssueFails(r) \/ Poll(r) \/ PollFails(r)
        PROVE  [Promise!Next]_<<runs, ToldMap>>
    <3>1. /\ UNCHANGED runs
          /\ client[r] \in {"idle", "waiting"}
      BY <2>1 DEF Issue, IssueFails, Poll, PollFails, serverVars
    <3>2. PICK outcome \in Outcome \ {"idle"} :
            /\ client' = [client EXCEPT ![r] = outcome]
            /\ outcome = "success" => runs[r] = 1
            /\ outcome = "refused" => runs[r] = 0
      <4>1. CASE Issue(r)
        BY <1>2, <4>1 DEF Issue, Becomes, Outcome, BridgeInv, RunsOnce
      <4>2. CASE IssueFails(r) \/ PollFails(r)
        BY <4>2 DEF IssueFails, PollFails, Becomes, Outcome
      <4>3. CASE Poll(r)
        BY <1>2, <4>3 DEF Poll, Becomes, Outcome, BridgeInv, SuccessIsTrue
      <4> QED BY <2>1, <4>1, <4>2, <4>3
    <3>3. /\ ToldMap[r] = "nothing"
          /\ ToldMap' = [ToldMap EXCEPT ![r] =
               CASE outcome \in {"idle", "waiting"} -> "nothing"
                 [] outcome = "success" -> "success"
                 [] outcome = "refused" -> "refused"
                 [] OTHER -> "unknown"]
      BY <1>2, <3>1, <3>2, TellOne DEF ToldMap, Told, BridgeInv, Types
    <3>4. CASE outcome = "waiting"
      <4>1. ToldMap' = ToldMap
        BY <3>3, <3>4 DEF ToldMap
      <4> QED BY <3>1, <4>1
    <3>5. CASE outcome # "waiting"
      <4>1. Promise!Tell(r)
        BY <3>1, <3>2, <3>3, <3>5 DEF Promise!Tell, ToldMap, Outcome
      <4> QED BY <4>1 DEF Promise!Next
    <3> QED BY <3>4, <3>5
  <2>2. CASE UNCHANGED client /\ UNCHANGED runs
    BY <2>2 DEF ToldMap, Told
  <2>3. CASE Apply
    <3>1. UNCHANGED client /\ holding \in Request /\ runs[holding] = 0 /\ Open(holding)
      BY <1>2, <2>3 DEF Apply, backendVars, BridgeInv, Types, RunsOnce
    <3>2. ToldMap' = ToldMap /\ ToldMap[holding] # "refused"
      BY <3>1 DEF ToldMap, Told, Open
    <3>3. runs' = [runs EXCEPT ![holding] = 1] \/ UNCHANGED runs
      BY <2>3, <3>1 DEF Apply
    <3>4. CASE runs' = [runs EXCEPT ![holding] = 1]
      BY <3>1, <3>2, <3>4 DEF Promise!Next, Promise!Run, ToldMap
    <3> QED BY <3>2, <3>3, <3>4
  <2>4. CASE BackendFails \/ BackendConnects \/ ServerConnects \/ Subscribe \/ Take \/ Answered
             \/ ListenerNotices \/ ListenerFails \/ TelemetryFails \/ ServerRestarts \/ UNCHANGED vars
    BY <2>2, <2>4 DEF BackendFails, BackendConnects, ServerConnects, Subscribe, Take, Answered,
         ListenerNotices, ListenerFails, TelemetryFails, ServerRestarts, vars, backendVars, serverVars
  <2> QED BY <1>2, <2>1, <2>3, <2>4 DEF Next, Listen
<1> QED BY <1>1, <1>2, BridgeInvariant, PTL DEF Spec, ImplementsPromise, Promise!Spec, ToldMap

-----------------------------------------------------------------------------
(***************************************************************************)
(* Without a fault the subscription stays once it is there, and nothing is *)
(* accepted before.                                                        *)
(***************************************************************************)
NothingEarly ==
  /\ subscribed => serverUp
  /\ ~subscribed => inbox = <<>> /\ holding = Nobody /\ \A r \in Published : client[r] = "refused"

LossInv == faults \in Nat /\ (faults = 0 => NothingEarly /\ LostOnlyByFaults)

(* What is taken from the inbox is all that leaves it.                     *)
LEMMA TakenFromInbox ==
  ASSUME Types, inbox # <<>>
  PROVE  Range(inbox) \subseteq Range(Tail(inbox)) \cup {Head(inbox)}
<1> SUFFICES ASSUME NEW i \in 1 .. Len(inbox)
             PROVE  inbox[i] \in Range(Tail(inbox)) \cup {Head(inbox)}
  BY DEF Range, Types
<1>1. CASE i = 1
  BY <1>1 DEF Types
<1>2. CASE i # 1
  <2>1. i - 1 \in DOMAIN Tail(inbox) /\ Tail(inbox)[i - 1] = inbox[i]
    BY <1>2 DEF Types
  <2> QED BY <2>1 DEF Range
<1> QED BY <1>1, <1>2

LEMMA AppendedToInbox ==
  ASSUME Types, NEW r \in Request
  PROVE  Range(inbox) \cup {r} \subseteq Range(Append(inbox, r))
<1> DEFINE longer == Append(inbox, r)
<1>1. /\ DOMAIN longer = 1 .. Len(inbox) + 1
      /\ longer[Len(inbox) + 1] = r
      /\ \A i \in 1 .. Len(inbox) : longer[i] = inbox[i]
      /\ DOMAIN inbox = 1 .. Len(inbox) /\ Len(inbox) \in Nat
  BY DEF Types
<1>2. \A i \in DOMAIN inbox : i \in DOMAIN longer /\ longer[i] = inbox[i]
  BY <1>1
<1>3. Len(inbox) + 1 \in DOMAIN longer
  BY <1>1
<1> HIDE DEF longer
<1>4. r \in Range(longer)
  BY <1>1, <1>3 DEF Range
<1>5. Range(inbox) \subseteq Range(longer)
  BY <1>2 DEF Range
<1> QED BY <1>4, <1>5 DEF longer

LEMMA LossInitially == Init => LossInv
<1> SUFFICES ASSUME Init PROVE LossInv
  OBVIOUS
<1>1. Published = {}
  BY DEF Init, Published
<1> QED BY <1>1 DEF Init, LossInv, NothingEarly, LostOnlyByFaults

LEMMA LossKept ==
  ASSUME BridgeInv, LossInv, [Next]_vars
  PROVE  LossInv'
<1>1. /\ faults' \in Nat
      /\ faults' = 0 => faults = 0 /\ UNCHANGED faults
  BY DEF LossInv, Next, Listen, Issue, IssueFails, Poll, PollFails, BackendFails, BackendConnects,
         ServerConnects, Subscribe, Take, Apply, Answered, ListenerNotices, ListenerFails,
         TelemetryFails, ServerRestarts, Fault, vars
<1> SUFFICES ASSUME faults = 0, UNCHANGED faults
             PROVE  NothingEarly' /\ LostOnlyByFaults'
  BY <1>1 DEF LossInv
<1>2. Types /\ NothingEarly /\ LostOnlyByFaults
  BY DEF BridgeInv, LossInv
<1>3. ~Fault
  BY DEF Fault
<1>4. ASSUME NEW r \in Request, Issue(r) PROVE NothingEarly' /\ LostOnlyByFaults'
  <2>1. client[r] = "idle" /\ order[r] = 0 /\ UNCHANGED <<serverUp, subscribed, holding, reply>>
    BY <1>4 DEF Issue, BridgeInv, RunsOnce
  <2>2. CASE UNCHANGED <<inbox, order>>
    <3>1. Published' = Published /\ r \notin Published
      BY <2>1, <2>2 DEF Published
    <3>2. \A q \in Request : q # r => client'[q] = client[q]
      BY <1>2, <1>4 DEF Issue, Becomes, Types
    <3>3. \A q \in Published : q \in Request /\ q # r
      BY <3>1 DEF Published
    <3> QED BY <1>2, <2>1, <2>2, <3>1, <3>2, <3>3 DEF NothingEarly, LostOnlyByFaults
  <2>3. CASE backendUp /\ Deliver(r) /\ Becomes(r, IF subscribed THEN "waiting" ELSE "refused")
    <3>1. Published' \subseteq Published \cup {r} /\ \A q \in Published : q \in Request /\ q # r
      BY <1>2, <2>1, <2>3 DEF Published, Deliver, Types
    <3>2. /\ \A q \in Request : q # r => client'[q] = client[q]
          /\ client'[r] = IF subscribed THEN "waiting" ELSE "refused"
      BY <1>2, <2>3 DEF Becomes, Types
    <3>3. CASE subscribed
      <4>1. Range(inbox) \cup {r} \subseteq Range(inbox')
        BY <1>2, <2>3, <3>3, AppendedToInbox DEF Deliver
      <4> QED BY <1>2, <2>1, <3>1, <3>2, <3>3, <4>1 DEF NothingEarly, LostOnlyByFaults
    <3>4. CASE ~subscribed
      <4>1. inbox' = inbox
        BY <2>3, <3>4 DEF Deliver
      <4> QED BY <1>2, <2>1, <3>1, <3>2, <3>4, <4>1 DEF NothingEarly, LostOnlyByFaults
    <3> QED BY <3>3, <3>4
  <2> QED BY <1>4, <2>2, <2>3 DEF Issue
<1>5. ASSUME NEW r \in Request, Poll(r) PROVE NothingEarly' /\ LostOnlyByFaults'
  <2>1. client[r] = "waiting" /\ UNCHANGED <<order, serverUp, subscribed, inbox, holding, reply>>
    BY <1>5 DEF Poll, serverVars
  <2>2. \A q \in Request : client[q] = "refused" => client'[q] = "refused"
    BY <1>2, <1>5 DEF Poll, Becomes, Types
  <2>3. Published' = Published /\ Published \subseteq Request
    BY <2>1 DEF Published
  <2> QED BY <1>2, <2>1, <2>2, <2>3 DEF NothingEarly, LostOnlyByFaults
<1>6. CASE Take
  <2>1. /\ UNCHANGED <<client, order, serverUp, subscribed, reply>> /\ subscribed
        /\ holding = Nobody /\ inbox # <<>> /\ holding' = Head(inbox) /\ inbox' = Tail(inbox)
    BY <1>6 DEF Take, backendVars
  <2>2. Range(inbox) \subseteq Range(inbox') \cup {holding'}
    BY <1>2, <2>1, TakenFromInbox
  <2>3. Published' = Published /\ \A q \in Published : q # Nobody
    BY <2>1, BridgeAssumption DEF Published
  <2> QED BY <1>2, <2>1, <2>2, <2>3 DEF NothingEarly, LostOnlyByFaults
<1>7. CASE Answered
  <2>1. /\ UNCHANGED <<client, order, serverUp, subscribed, inbox>>
        /\ holding # Nobody /\ result # "none" /\ holding' = Nobody
        /\ reply' = [reply EXCEPT ![holding] = result]
    BY <1>7 DEF Answered, backendVars
  <2>2. \A q \in Request : reply'[q] = IF q = holding THEN result ELSE reply[q]
    BY <1>2, <2>1 DEF Types
  <2>3. Published' = Published /\ Published \subseteq Request
    BY <2>1 DEF Published
  <2> QED BY <1>2, <2>1, <2>2, <2>3 DEF NothingEarly, LostOnlyByFaults
<1>8. CASE Subscribe
  <2>1. /\ UNCHANGED <<client, order, serverUp, holding, reply>> /\ ~subscribed
        /\ serverUp /\ inbox' = <<>> /\ subscribed'
    BY <1>8 DEF Subscribe, backendVars
  <2>2. Published' = Published
    BY <2>1 DEF Published
  <2> QED BY <1>2, <2>1, <2>2 DEF NothingEarly, LostOnlyByFaults
<1>9. CASE \/ BackendConnects \/ ServerConnects \/ Apply \/ UNCHANGED vars
  <2>1. UNCHANGED <<client, order, subscribed, inbox, holding, reply>> /\ (serverUp => serverUp')
    BY <1>9 DEF BackendConnects, ServerConnects, Apply, vars, backendVars, serverVars
  <2>2. Published' = Published
    BY <2>1 DEF Published
  <2> QED BY <1>2, <2>1, <2>2 DEF NothingEarly, LostOnlyByFaults
<1>10. ~ListenerNotices
  BY <1>2 DEF ListenerNotices, NothingEarly
<1> QED BY <1>3, <1>4, <1>5, <1>6, <1>7, <1>8, <1>9, <1>10
        DEF Next, Listen, IssueFails, PollFails, BackendFails, ListenerFails, TelemetryFails,
            ServerRestarts

(***************************************************************************)
(* While nothing goes wrong no published command is lost, however many are *)
(* sent before the camera server listens.                                  *)
(***************************************************************************)
THEOREM NothingLostWithoutFault == Spec => []LostOnlyByFaults
<1>1. LossInv => LostOnlyByFaults
  BY DEF LossInv, LostOnlyByFaults
<1> QED BY <1>1, BridgeInvariant, LossInitially, LossKept, PTL DEF Spec
=============================================================================
