SPECIFICATION Spec
CONSTANTS
    Regions = {"CODE", "I2C"}
    Digits = {"I2C"}
    MaxVersion = 2
    MaxEdits = 2
    MaxFaults = 1
INVARIANTS
    VerdictIsRight
    GenerationRepairs
