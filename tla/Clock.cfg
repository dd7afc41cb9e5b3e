SPECIFICATION ReceptionSpec
CONSTANTS
  Day = 12
  Period = 3
  MaxAge = 1
  MaxStall = 2
  NtpLag = 3
  Buffer = 2
  Window = 4
  BitsPeriod = 8
  Reference <- MCReference
  Packets <- MCPackets
  NoReport = NoReport
INVARIANTS TypeOK NeverAhead WrongBound NearTruth 
PROPERTIES SetNear
