SPECIFICATION FairSpec
CONSTANTS
    entry = entry
    lib = lib
    Files = {entry, lib}
    Watched = {entry, lib}
    BadContent <- HalfEdit
    Requests = {r1, r2}
    MaxEdits = 2
    None = None
INVARIANTS
    TypeOK
    NoLostEdit
    OnlyGoodServed
PROPERTIES
    RequestsMoveForward
    Converges
