SPECIFICATION Spec
CONSTANTS
  c1 = c1  c2 = c2  w1 = w1  w2 = w2  s1 = s1  s2 = s2
  Client = {c1, c2}
  Worker = {w1, w2}
  WorkerOf <- TwoWorkers
  Server = {s1, s2}
  MaxAttempts = 2
  UnauthLimit = 2
  SendErrorLimit = 1
  MaxRequests = 2
  NoClient = NoClient
  NoServer = NoServer
SYMMETRY ServerSymmetry
INVARIANTS TypeOK WireSessionInstalled GaugesExact NoOrphan SocketOnlyActive SettleRespected
PROPERTY AssignmentsInOrder
