CONSTANTS
  w1 = w1
  w2 = w2
  a1 = a1
  c1 = c1
  c2 = c2
  Workers <- MCWorkers
  Accounts <- MCAccounts
  Chars <- MCChars
  CharsOf <- MCCharsOf
  MaxCharacters = 2
  MaxRuns = 2
  NoWorker = NoWorker
  NoAccount = NoAccount
  NoChar = NoChar
SPECIFICATION FairSpec
CHECK_DEADLOCK FALSE
INVARIANTS NoUnfinishedJob IsolatedWrites SyncedHasSnapshot
PROPERTIES AtomicPublication EveryTransactionEnds
