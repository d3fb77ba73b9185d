SPECIFICATION Spec
CONSTANTS
  Streams = {"h1", "h2"}
  Requests = {"r1", "r2", "r3"}
  StreamOf <- TwoAndOne
  Size <- OneEmpty
  Clients = {"k1"}
  NoClient = "nobody"
  ClientOf <- SameClient
  Rejectable = {"h2"}
  MayDisconnect = {"h1"}
  MayAbort = {"k1"}
INVARIANTS
  ResultsAreSent
  StreamsHaveClients
CHECK_DEADLOCK FALSE
