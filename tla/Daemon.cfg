SPECIFICATION FairSpec
CONSTANTS
  Daemons = {d1, d2}
  Rebuilt = {d2}
  NoDaemon = NoDaemon
  Clients = {jamail, jacal}
  Reloaders = {jacal}
  Uploaders = {jamail}
  Stuck = {jacal}
  QueueCap = 1
  MaxChanges = 1
  MaxRequests = 2
CHECK_DEADLOCK FALSE
INVARIANT OneServes
INVARIANT AppliedInOrder
PROPERTY CatchUp
