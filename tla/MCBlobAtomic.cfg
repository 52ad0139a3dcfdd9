CONSTANTS
    Threads = {t1, t2}
    Workers = {w1, w2}
    Ids = {i1, i2}
    long = i1
    Size <- MCSize
    NoId = NoId
    NoFile = NoFile
    NoCall = NoCall

SPECIFICATION BlobSpec
SYMMETRY Symmetry

INVARIANTS
    WritesAreAtomic
