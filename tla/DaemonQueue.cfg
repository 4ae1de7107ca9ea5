\* A connection and the watcher on a channel of one slot; the worker may panic, a
\* handler fail, and the daemon be shut down, at any moment.
SPECIFICATION FairSpec
CONSTANTS
  Clients = {c1}
  Watcher = watcher
  Cap = 1
  MaxDisk = 2
  MaxCalls = 2
  Faults <- AllFaults
INVARIANTS
  TypeOK
PROPERTIES
  ImplementsService
  CallsEnd
  ChangesGetIndexed
  WatcherSettles
CHECK_DEADLOCK FALSE
