\* create_user, the bootstrap and restarts with clients that write to _auth
\* like any collection.
\* No deadlock check: once every key is READ_ONLY (an admin may demote
\* itself with create_user) no request changes anything, and the restarts
\* that remain possible are bounded.
CONSTANTS
  Keys = {root, k1}
  Root = root
  RoleStrs <- MCRoleStrs
  AuthWriters = {root, k1}
  DocIds = {d1, d2, d3}
  MaxRestarts = 2
SPECIFICATION Spec
CONSTRAINT AuthBound
INVARIANTS TypeOK
SYMMETRY DocIdSymmetry
CHECK_DEADLOCK FALSE
