CONSTANTS
  r1 = r1
  r2 = r2
  f = f
  u1 = u1
  u2 = u2
  page = page
  other = other
  writer = writer
  plain = plain
  broken = broken
  blank = blank
  Renders = {r1, r2}
  Files = {f}
  Urls = {u1}
  Sources = {page, writer}
  Blank = blank
  HoleSources = {page, writer}
  WriteSources = {writer}
  FastSources = {}
  BadSources = {}
  Modes = {"interpreter", "vm", "fallback"}
  NoHash = NoHash
  NoSource = NoSource
  NoEntry = NoEntry
  NoAnswer = NoAnswer
  NoRequest = NoRequest
SPECIFICATION Spec
SYMMETRY Symmetry
INVARIANTS
  TypeOk
  AnswersOwnSource
  CacheCoherent
  WritesAlwaysExecute
PROPERTIES
  ImplementsShelf
