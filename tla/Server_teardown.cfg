\* Teardown order of ~Server: one worker, one client.  The session the
\* signal wakes ends in remove_client after ~Server has destroyed the
\* registry.  The process may stop for good: CHECK_DEADLOCK FALSE.
CONSTANTS
  Workers = {w1}
  Clients = {c1}
  Admins = {}
  MaxReqs = 1
  None = None
SPECIFICATION Spec
INVARIANT RegistryAlive
CHECK_DEADLOCK FALSE
