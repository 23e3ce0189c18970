CONSTANTS
  Operation = {o1, o2}
  Basis = {1}
  Request = {1, 2}
  Connection = {0, 1, 2}
  ConnectionOf <- OwnConnections
  WorkerConnection = 0
  MaxOperations = 1
  MaxFailures = 1
SPECIFICATION Spec
INVARIANT NothingLost
CHECK_DEADLOCK FALSE
