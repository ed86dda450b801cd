SPECIFICATION FairSpec
CONSTANTS
  j1 = j1
  j2 = j2
  n1 = n1
  n2 = n2
  l1 = l1
  l2 = l2
  Jobs <- MCJobs
  Lanes <- MCLanes
  Names <- MCNames
  NameOf <- MCNameOf
  MaxAttempts = 2
  MaxStarts = 3
  MaxFaults = 1
INVARIANTS
  TypeOK
  ExclusiveExecution
  HeldRecordIsCurrent
  VerdictsEarned
  FailuresBooked
  StrandedOnlyByFault
PROPERTIES
  VerdictIsFinal
  RepeatOnlyIfInterrupted
  LedgerSpec
  JobsSettle
