CONSTANTS
  Sessions = {s1, s2}
  Ungrouped = ungrouped
  Finalizers = {p1, p2}
  s1 = s1
  s2 = s2
  hello = hello
  lookup = lookup
  reply = reply
  call1 = call1
  call2 = call2
  Seeds = {hello, lookup, reply}
  RootSeed = root
  Calls = {call1, call2}
  Scripts <- MCScripts
  HookEvents = {"PostToolUse"}
  Imports <- MCImports
  MaxEvents <- MCMaxEvents
  MaxFailures = 1
  NoRun = NoRun
SPECIFICATION FairTraceSpec
CHECK_DEADLOCK FALSE
INVARIANTS
  TraceTypeOK
  IndexMatchesDocument
  RootIndexed
  LostOnlyInReplacement
  RicherWins
PROPERTIES
  EventuallyIngested
