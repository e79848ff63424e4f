\* One host, one call of any kind, in either direction.
SPECIFICATION FairSpec
CONSTANTS
  Hosts = {"h1"}
  k1 = k1
  Calls = {k1}
  Kinds = {"async", "asyncEach", "sync", "syncEach", "inbound"}
  Attempts = 2
  MaxAnnounce = 2
CHECK_DEADLOCK FALSE
INVARIANTS ClearNeverThrows OneCallback FailureOnlyIfAllFailed SuccessOnlyIfAnswered
PROPERTIES SyncReturns MainComesBack
