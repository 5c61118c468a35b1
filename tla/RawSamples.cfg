\* Two passes of four batches, with room for two samples.
SPECIFICATION Spec
CONSTANTS
    Retention = 2
    SampleLimit = 2
    NumProducts = 4
    MaxPasses = 2
    MaxFaults = 1
PROPERTY OnlyExcessRemoved
CHECK_DEADLOCK FALSE
