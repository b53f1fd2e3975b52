SPECIFICATION FairSpec
CONSTANTS
  Threads = {t1, t2, t3}
  t1 = t1
  t2 = t2
  t3 = t3
  Calls = {"getattr", "dir", "read", "truncate", "write", "utime"}
  ChangesAlone = TRUE
  Crashes = TRUE
  LongNames = FALSE
  MaxCalls = 3
INVARIANTS  AnswersReachAsker
PROPERTIES EveryCallReturns
CHECK_DEADLOCK FALSE
