CONSTANTS
    Targets = {"soc"}
    MaxRtl = 2
    Reverts = FALSE
    Includes = TRUE
    MaxSw = 2
    MaxTests = 2
    Kinds = {"profile", "regression", "isa", "build"}
SPECIFICATION Spec
INVARIANT CurrentModelIsFaithful
