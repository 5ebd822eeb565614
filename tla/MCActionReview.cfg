SPECIFICATION Spec
CONSTANTS
  Turns = {t1, t2, t3}
  Reviews = {r1, r2}
  Files = {f1, f2}
  MaxRevision = 3
  Profiles = {"helper", "main"}
  MaxFaults = 2
  None = None
  Intent = Intent
SYMMETRY Symmetry
CHECK_DEADLOCK FALSE
INVARIANTS
  JobTellsWrite
  SavedAsPreviewed
  OneFilePerPermission
  DroppedReviewIsAnswered
PROPERTIES
  RevokedIsNeverWritten
