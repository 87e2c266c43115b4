\* Two orchestrators, two respondents one of whom cannot be decrypted.
SPECIFICATION FairSpec
CONSTANTS
  Replicas = {o1, o2}
  Respondents = {r1, r2}
  Undecryptable = {r2}
  Nil = Nil
  MaxPriority = 1
  Band = 3
  MaxAttempts = 2
  BatchLimit = 2
  RetryDelay = 1
  MaxHeld = 1
  MaxNow = 1
  MaxFaults = 1
CHECK_DEADLOCK FALSE
INVARIANTS
  RespondentsAreKept
PROPERTIES
  MatureIsTakenUp
