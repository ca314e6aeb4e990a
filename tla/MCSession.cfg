SPECIFICATION FairSpec
CONSTANTS
  ana = ana  ben = ben
  Seed <- MCSeed
  Username = {ana, ben}
  Role = {"operator", "reviewer"}
  Route = {"session", "write"}
  Call = {c1, c2}
  Tab = {left, right}
  None = None
  TTL = 1
  MaxNow = 1
  MaxId = 3
  MaxChanges = 1
  MaxFaults = 1
  MaxOpens = 2
  MaxSends = 2
INVARIANTS
  TypeOK
  RightsAreCurrent
  OneAccountEach
  WriterShowsStore
  LoadingAwaitsOne
PROPERTIES
  LoadingEnds
CHECK_DEADLOCK FALSE
