SPECIFICATION FairSpec
CONSTANTS
  c1 = c1  c2 = c2  w1 = w1  w2 = w2  s1 = s1  s2 = s2
  Client = {c1, c2}
  Worker = {w1}
  WorkerOf <- OneWorker
  Server = {s1}
  MaxAttempts = 2
  UnauthLimit = 1
  SendErrorLimit = 1
  MaxRequests = 2
  NoClient = NoClient
  NoServer = NoServer
PROPERTIES ImplementsClientSession SuspensionEnds WaitingEnds StopCompletes
