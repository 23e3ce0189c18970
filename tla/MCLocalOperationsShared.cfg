CONSTANTS
  Operation = {o1, o2}
  Basis = {1}
  Request = {1, 2}
  Connection = {0, 1, 2}
  ConnectionOf <- OneConnection
  WorkerConnection = 0
  MaxOperations = 1
  MaxFailures = 0
SPECIFICATION Spec
INVARIANT NeverTwice
CHECK_DEADLOCK FALSE
