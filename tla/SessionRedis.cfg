CONSTANTS
  Touchers = {a}
  Ttls = {3}
  Second = 3
  Absent = Absent
  NoKeyTtl = NoKeyTtl
  Nothing = Nothing
SPECIFICATION Spec
INVARIANTS PersistedAutomatically
