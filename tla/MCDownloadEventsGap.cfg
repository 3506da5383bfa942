\* One job that ends while the client is reconnecting.
SPECIFICATION FairSpec
CONSTANTS
  None = None
  MaxJobs = 1
  MaxPercent = 1
  MaxWire = 1
  MaxDeletes = 1
PROPERTIES ShownJobsSettle
