SPECIFICATION FairSpec
CONSTANTS
  f1 = f1
  f2 = f2
  Fetchers <- MCFetchers
  DayRows = 2
  Retries = 2
  ThrottleRetries = 2
  DataStreams = 1
  MaxExpiries = 1
INVARIANTS
  TypeOK
  RejectedAfterRenewal
PROPERTIES
  ImplementsFetch
  FetchEnds
