SPECIFICATION Spec
CONSTANTS
    Names = {page, style}
    Source = src
    Contents = {x, y}
    Absent = absent
    Precompress = {"br", "gz"}
    Prebuild = 1
    Postbuild = 1
    MaxEdits = 1
SYMMETRY Symmetric
INVARIANTS TypeOK  FreshVariants KeptOrReplaced
