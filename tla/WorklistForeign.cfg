SPECIFICATION Spec
CONSTANTS
  a = a
  b = b
  c = c
  d = d
  e = e
  p = p
  Files = {a, b, c}
  PackageOf <- OnePackage
  DeclarationsOf <- OneEach
  Integration = integration
  MaxUnits = 3
INVARIANTS EveryBatchCanComplete
