CONSTANTS
    Flows = {"board", "competition"}
    MaxVersion = 2
    MaxFaults = 2
    Memories = 2
    Sources = {"old", "new"}
    MaxDisturbances = 4
SPECIFICATION MCSpec
INVARIANTS ImagesFromPreparedSource RecordsAreTruthful ReleaseBelongsTogether
