SPECIFICATION FairSpec
CONSTANTS
    entry = entry
    lib = lib
    Files = {entry, lib}
    Watched = {entry, lib}
    BadContent <- HalfEdit
    Requests = {}
    MaxEdits = 2
    None = None
PROPERTIES
    ReloadsEveryChange
