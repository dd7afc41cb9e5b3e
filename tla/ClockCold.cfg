SPECIFICATION Spec
CONSTANTS
  Day = 12
  Period = 3
  MaxAge = 1
  MaxStall = 2
  NtpLag = 3
  Buffer = 2
PROPERTY DateKept
