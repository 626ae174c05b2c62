SPECIFICATION FairSpec
CONSTANTS
  A = A
  B = B
  a1 = a1
  a2 = a2
  b1 = b1
  Threads <- StormThreads
  Procs <- MCProcs
  ProcOf <- StormProcOf
  Nobody = Nobody
  MaxCalls = 2
  MaxFaults = 2
INVARIANTS
  TypeOK
  FlockExclusive
  PresentsCurrent
  MintOnlyWhenNeeded
  NoErrorWithoutFault
  CredentialHeld
  NoOrphanedCredential
  ExpiredMeansDead
PROPERTIES
  CallsReturn
CHECK_DEADLOCK FALSE
