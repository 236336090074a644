SPECIFICATION Spec
CONSTANTS
    MaxIds = 3
INVARIANTS TypeOK NothingLeftBehind OneKeyInMemory
PROPERTIES ImplementsHolder
