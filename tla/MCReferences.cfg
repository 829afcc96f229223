CONSTANTS
    Deps = {"spike", "ibex"}
    Order <- MCOrder
    WithSubmodules = {"ibex"}
    MaxCommit = 2
    Reverts = FALSE
    MaxKills = 2
SPECIFICATION LiveSpec
INVARIANTS CheckoutInv CurrentReferenceIsPinned
PROPERTY FetchResumes
