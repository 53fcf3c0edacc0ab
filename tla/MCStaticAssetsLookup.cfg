SPECIFICATION Spec
CONSTANTS
  Names = {n}
  Forms = {"plain", "html", "index"}
  Contents = {1}
  Absent = Absent
  None = None
  Clients = {c}
  Sources = {"fs", "memory"}
  MaxEdits = 2
INVARIANTS TypeOK FirstMatch  
