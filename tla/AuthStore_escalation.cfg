\* A READ_WRITE client inserts into _auth, as has_permission lets it.
CONSTANTS
  Keys = {root, k1}
  Root = root
  RoleStrs <- MCRoleStrs
  AuthWriters = {k1}
  DocIds = {d1, d2, d3}
  MaxRestarts = 2
SPECIFICATION Spec
CONSTRAINT AuthBound
SYMMETRY DocIdSymmetry
INVARIANT NoPrivilegeEscalation
