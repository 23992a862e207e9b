SPECIFICATION VerifySpec
CONSTANTS
  p1 = p1
  p2 = p2
  e1 = e1
  e2 = e2
  d1 = d1
  d2 = d2
  broken = broken
  NoDef = NoDef
  Proc = {p1}
  MaxRunning = 1
  Example <- MCExample
  entrypoint <- MCEntrypoint
  Lane = {"claude", "qwen"}
  Configured = {"claude"}
  Def <- MCDef
  Typechecks <- MCTypechecks
  Agrees <- MCAgrees
  extracted <- MCExtracted
  MaxIters = 1
INVARIANT SkipIsClean
