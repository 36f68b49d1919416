SPECIFICATION Spec
CONSTANTS
    Kinds <- BindKinds
    MaxDispatches = 1
    MaxFaults = 2
PROPERTIES
    PassedWasTaken
CHECK_DEADLOCK FALSE
