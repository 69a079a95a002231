CONSTANTS
  Updater = {u1, u2}
  Torn = Torn
  Session = {s1}
  Privileged = {}
  Caster = {r1, r2, pump}
  Conn = {r1, r2}
  pump = pump
  QCap = 1
  MaxSeq = 2
  BusCap = 1
  None = None
  Handler = {h1, h2}
  AuthEnabled = TRUE
  MaxInputs = 3
SPECIFICATION FairSpec
INVARIANTS TypeOK FileIsMemory NoSendOnClosed NewestSinceClear OnlyExcusedDiffers
PROPERTIES SessionsEnd
CHECK_DEADLOCK FALSE
