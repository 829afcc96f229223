CONSTANTS
    Targets = {"soc"}
    MaxRtl = 2
    Reverts = FALSE
    Includes = FALSE
    MaxSw = 2
    MaxTests = 2
    Kinds = {"profile", "regression", "isa", "build"}
SPECIFICATION Spec
INVARIANTS CurrentModelIsFaithful AcceptedImageIsWhole ResultsAreTruthful IsaSummaryOneModel
PROPERTY PassMeansAllPassed
