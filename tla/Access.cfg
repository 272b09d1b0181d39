CONSTANTS
  Rotators = {a, b, c}
  MaxTokens = 3
  Touchers = {a, b}
  Ttls = {0, 1, 3, 4}
  Second = 3
  Absent = Absent
  NoKeyTtl = NoKeyTtl
  Nothing = Nothing
  Admin = Admin
  Editor = Editor
  Viewer = Viewer
  Read = Read
  Write = Write
  Names = {Admin, Editor, Viewer}
  Permissions = {Read, Write}
  Hierarchies <- ChainAndCycle
  Conditions = {OwnOnly, Approved}
  Conditional = {Write}
  MaxGranted = 2
  MaxParents = 3
  MaxAttached = 2
  MaxSize = 5
SPECIFICATION AccessSpec
INVARIANTS OneLiveToken ReuseEndsFamily ServedInTime DestroyedForGood AccessAsInherited
PROPERTIES NoCycleBySetting
SYMMETRY Interchangeable
