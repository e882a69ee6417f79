\* One reader over a trail of up to five log entries and a collection of up to
\* four items that changes twice; pages of two by default, of three at most.
SPECIFICATION Spec
CONSTANTS
    flag = flag
    user = user
    Reader = {r1}
    Entry <- Entries
    Filter <- Filters
    AskedLimit <- Limits
    Item <- Items
    DefaultPageLimit = 2
    MaxPageLimit = 3
    MaxIndex = 5
    MaxChange = 2
INVARIANTS
    NothingSkipped
    NothingRepeated
    DriftOnlyAfterChange
PROPERTIES
    PreviousAdjoins
