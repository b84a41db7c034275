\* One collection log with three documents of 2, 3 and 4 bytes; every
\* insert may complete, hit an I/O error (reported or only in the
\* destructor's flush) or be cut by a crash after any byte of its frame.
CONSTANTS
  Docs <- MCDocs
  TombOf <- MCTombOf
  LateFlushErrors = TRUE
SPECIFICATION Spec
CONSTRAINT SegBound
INVARIANTS TypeOK RecoverUpToTear
