SPECIFICATION FairBackendSpec
CONSTANT MaxCancels = 3
INVARIANT
  BackendOutlivesChild
PROPERTY
  CancelEndsBackend
