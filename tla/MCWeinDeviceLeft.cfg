CONSTANTS
    Kinds <- AllKinds
    MaxReady = 3
SPECIFICATION Spec
PROPERTIES
    ConnectionIsUsed
