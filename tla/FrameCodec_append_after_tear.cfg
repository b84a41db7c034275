\* As FrameCodec_torn.cfg, but append reports every I/O error it meets
\* (no error only in the destructor's flush), so that only the retry or
\* the next insert after a torn frame can be lost.
CONSTANTS
  Docs <- MCDocs
  TombOf <- MCTombOf
  LateFlushErrors = FALSE
SPECIFICATION Spec
CONSTRAINT SegBound
INVARIANT AckedRecoverable
