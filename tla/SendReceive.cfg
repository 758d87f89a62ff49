SPECIFICATION FairSpec
CONSTANTS
  s1 = s1
  s2 = s2
  r1 = r1
  name = name
  Senders = {s1, s2}
  Receivers = {r1}
  Name <- SameName
  MaxRetries <- Retries
  Nobody = Nobody
  MaxCrashes = 2
INVARIANTS
  
  NobodyIsLeftWaiting
  
PROPERTIES
  TakesOneMessage
  ClosedRowStays
  LimitedSenderSettles
  UnlimitedSenderIsAnswered
CHECK_DEADLOCK FALSE
