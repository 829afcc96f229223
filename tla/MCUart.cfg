CONSTANTS
    w1 = w1
    w2 = w2
    Depth = 2
    DataBits = 2
    ResetDiv = 3
    Writers <- MCWriters
    Reader = r
    Nobody = nobody
    Chars <- MCChars
    MaxBytes = 4
SPECIFICATION LiveSpec
INVARIANTS RingInv NothingCorrupted FlushMeansSent
PROPERTIES DropsOnlyWhenFull NothingIsStuck
