SPECIFICATION Spec
CONSTANTS
  Sources = {a, b}
  Docs = docs
  Config = config
  Procs = {p1, p2}
  None = None
  HookModes = {"auto", "disabled"}
  MaxSync = 1
  MaxEvents = 4
INVARIANTS OneBackend IdleIsCurrent
PROPERTIES NoopIsCurrent CatchesUp
CHECK_DEADLOCK FALSE
