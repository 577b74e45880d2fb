SPECIFICATION Spec
CONSTANTS
    HeaderSize = 2
    Ends <- SixFrames
    Kinds <- SixKinds
    Networks = {"pieces"}
    MaxGarbage = 3
INVARIANT InStep
