CONSTANTS
  Operation = {o1, o2}
  Basis = {1, 2}
  Request = {1, 2, 3}
  Connection = {0, 1, 2, 3}
  ConnectionOf <- OwnConnections
  WorkerConnection = 0
  MaxOperations = 2
  MaxFailures = 1
SPECIFICATION Spec
INVARIANTS TypeOK InductiveInvariant NeverTwice StaysDetectable OneBasis
PROPERTY AcceptedIsMerged
CHECK_DEADLOCK FALSE
