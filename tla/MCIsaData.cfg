CONSTANTS
    MaxVersion = 2
    SelectedTests <- OneReplaced
    LegacyTests = {"add"}
    MaxDisturbances = 3
SPECIFICATION LiveSpec
INVARIANTS AcceptedDataIsTrue GeneratedIsExact
PROPERTY RegenerationSucceeds
