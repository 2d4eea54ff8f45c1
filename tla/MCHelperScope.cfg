CONSTANTS
  a1 = a1
  a2 = a2
  r1 = r1
  r2 = r2
  k1 = k1
  k2 = k2
  Adders <- MCAdders
  Readers <- MCReaders
  Keys <- MCKeys
  MaxAdds = 3
  NoScope = NoScope
  Nobody = Nobody
SPECIFICATION Spec
INVARIANTS
  TypeOk
  FreshScope
PROPERTIES
  ScopeNeverRegresses
  CallsReturn
