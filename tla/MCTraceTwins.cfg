CONSTANTS
  Sessions = {s1, s2}
  Ungrouped = ungrouped
  Finalizers = {p1, p2}
  s1 = s1
  s2 = s2
  hello = hello
  lookup = lookup
  reply = reply
  call1 = call1
  call2 = call2
  Seeds = {hello, lookup, reply}
  RootSeed = root
  Calls = {call1, call2}
  Scripts <- TwinScripts
  HookEvents = {"PostToolUse"}
  Imports <- MCImports
  MaxEvents <- MCMaxEvents
  MaxFailures = 1
  NoRun = NoRun
SPECIFICATION TraceSpec
CHECK_DEADLOCK FALSE
INVARIANT CollidingSpansRetained
