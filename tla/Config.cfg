SPECIFICATION Spec
CONSTANTS
  Positions <- MCPositions
  Uploads <- MCUploads
  Fix <- MCFix
  Torn = Torn
  Absent = Absent
  NoForm = NoForm
  NoUpload = NoUpload
INVARIANTS TypeOK SavedAsSent NeverStuck
PROPERTIES  Recovers
