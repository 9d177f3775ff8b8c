SPECIFICATION FairSpec
CONSTANTS
  SizeModulus = 64
  Runs <- MCRuns
  Bytes <- MCBytes
  Banner <- MCBanner
  Capacity = 2
  Chatter = 3
  Requests <- MCRequests
  MaxReq = 2
  MaxGot = 3
  client_max_body_size = 5
INVARIANTS TypeOK TakenAsSent LimitKept BodyComesBack WaitsOnlyBeyondCapacity EndsOnlyFor
PROPERTY EveryRequestAnswered
CHECK_DEADLOCK FALSE
