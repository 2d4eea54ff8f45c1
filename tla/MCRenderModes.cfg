CONSTANTS
  r1 = r1
  r2 = r2
  f = f
  u1 = u1
  u2 = u2
  page = page
  other = other
  writer = writer
  plain = plain
  broken = broken
  blank = blank
  Renders = {r1}
  Files = {f}
  Urls = {u1}
  Sources = {page, other, plain, broken}
  Blank = blank
  HoleSources = {page, other}
  WriteSources = {}
  FastSources = {plain}
  BadSources = {broken}
  Modes = {"interpreter", "vm", "fallback", "trusted"}
  NoHash = NoHash
  NoSource = NoSource
  NoEntry = NoEntry
  NoAnswer = NoAnswer
  NoRequest = NoRequest
SPECIFICATION Spec
PROPERTIES
  RendersReturn
