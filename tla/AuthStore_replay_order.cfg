\* Only create_user writes _auth; a key may be given a role twice.
CONSTANTS
  Keys = {root, k1}
  Root = root
  RoleStrs <- MCRoleStrs
  AuthWriters = {}
  DocIds = {d1, d2, d3}
  MaxRestarts = 2
SPECIFICATION Spec
CONSTRAINT AuthBound
SYMMETRY DocIdSymmetry
PROPERTY AuthReplayEquivalence
