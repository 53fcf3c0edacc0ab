SPECIFICATION Spec
CONSTANTS
  Names = {n}
  Forms = {"html"}
  Contents = {1, 2}
  Absent = Absent
  None = None
  Clients = {c}
  Sources = {"fs", "memory"}
  MaxEdits = 3
INVARIANTS Current
