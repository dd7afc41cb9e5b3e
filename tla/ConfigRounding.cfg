SPECIFICATION Spec
CONSTANTS
  Positions <- MCPositions
  Uploads <- MCUploads
  Fix <- MCFix
  Torn = Torn
  Absent = Absent
  NoForm = NoForm
  NoUpload = NoUpload
INVARIANT UntouchedPositionKept
