SPECIFICATION BackendSpec
CONSTANT MaxCancels = 1
INVARIANT PrintsNamedFile
