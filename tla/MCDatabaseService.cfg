CONSTANTS
    IntBits = 16
    Keys = {k1, k2}
    Workers = {w1, w2}
    Absent = Absent
    Meaning <- MCMeaning
    Payloads <- MCPayloads
    Texts <- MCTexts
    ValueOf <- Parse
    Written <- SerializeObject
    Queries <- MCQueries

SPECIFICATION DbSpec

SYMMETRY Symmetry

INVARIANTS
    StoredIsReadable
    NothingIsMisread
    AnswersAreOrdered

PROPERTIES
    ImplementsRecordStore
    LocalViewAgrees
