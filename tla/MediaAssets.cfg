\* Two confirmations or webhook requests at once, two files of different sizes.
CONSTANTS
  Files = {"chosen", "other"}
  SizeOf <- MCSizeOf
  Confirmations = {c1, c2}
  Deliveries = {d1, d2}
  None = None
SPECIFICATION FairSpec
INVARIANTS
  ReportsAreTrue
  ReadyIsComplete
PROPERTIES
  UploadIsKept
  SoleConfirmationIsSafe
  ImplementsAssetLifecycle
  FinishedBecomesReady
\* An upload that is over, or that nobody resumes, stops.
CHECK_DEADLOCK FALSE
