\* Three commands of operators, two faults of Redis or of the camera server.
\* The model stops when every request has its answer and Redis is quiet.
SPECIFICATION FairSpec
CONSTANTS
  r1 = r1
  r2 = r2
  r3 = r3
  Request <- Requests
  Polls = 2
  MaxFaults = 2
INVARIANT LostOnlyByFaults
PROPERTIES ImplementsPromise AcknowledgedIsLast ListenerReturns
CHECK_DEADLOCK FALSE
