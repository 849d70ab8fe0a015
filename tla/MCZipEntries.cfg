SPECIFICATION Spec
CONSTANTS
    Names = {"a", "b", "d/"}
    Dirs = {"d/"}
    NoName = NoName
    HashOf <- HashValues
    MinSize = 2
    MaxEntries = 3
    Archives <- SomeArchives
    Callers <- OneField
INVARIANTS
    EntriesInv
    NamesAgree
    WrittenAsAsked
    NothingLost
    FilesAgree
PROPERTY UnchangeAllRestores
CHECK_DEADLOCK FALSE
