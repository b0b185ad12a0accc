CONSTANTS
  Clients = {a, b, c}
  MaxRetries = 2
  MaxDeletes = 1
SPECIFICATION Spec
CHECK_DEADLOCK FALSE
PROPERTIES ImplementsAtomicUpdate
