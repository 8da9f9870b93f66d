\* Frames of two units, a reader that takes one at a time.
CONSTANTS
    QueueSize = 2
    FrameSize = 2
    MaxUnits = 3
SPECIFICATION Spec
PROPERTIES
    ImplementsPipe
CHECK_DEADLOCK FALSE
