SPECIFICATION Spec
CONSTANT MaxText = 6
INVARIANTS
    ImageIsTheProgram
    EveryBitOnce
    CheckedListIsFingerprinted
    SelectionIsRight
    
    ClocksAreAsContracted
    PreparedRunBuildsTheEntry
    CleaningKeepsTheCode
