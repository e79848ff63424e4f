\* Asynchronous calls to each connection; requests are lost three times.
SPECIFICATION Spec
CONSTANTS
  Hosts = {"h1"}
  k1 = k1
  Calls = {k1}
  Kinds = {"asyncEach"}
  Attempts = 3
  MaxAnnounce = 1
CHECK_DEADLOCK FALSE
INVARIANT FailureReported
