CONSTANTS
  c1 = c1
  c2 = c2
  Client = {c1, c2}
  Scripts <- TwoClients
  Depth = 4
  RecvSize = 2
  SendSize = 1
  ChunkSize = 3
SPECIFICATION FairSpec
INVARIANTS TypeOK RequestsInOrder InterestFollowsBuffer ByeIsSaid
PROPERTY ClientsGetThrough
CHECK_DEADLOCK FALSE
