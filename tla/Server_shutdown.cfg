\* Shutdown of the server and the pool: one worker, three clients (two
\* more than the workers, so connections wait in the queue), one ADMIN.
\* The process stops for good once main has joined the workers, and a
\* server nobody connects to waits in accept(): CHECK_DEADLOCK FALSE.
CONSTANTS
  Workers = {w1}
  Clients = {c1, c2, c3}
  Admins = {c1}
  MaxReqs = 1
  None = None
SPECIFICATION Spec
INVARIANTS NoDoubleClose
PROPERTY ShutdownCompletes
CHECK_DEADLOCK FALSE
