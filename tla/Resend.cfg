CONSTANTS
  h1 = h1
  h2 = h2
  c1 = c1
  k1 = k1
  k2 = k2
  Handlers = {h1, h2, c1}
  Brokers = {k1}
  Host <- OneProcess
  Instances = {i1}
  Bindings = {b1, b2}
  Passwords = {p1, p2, p3}
  None = None
  DriverResends = TRUE
  MaxFaults = 1
  Serialized = FALSE
SPECIFICATION Spec
SYMMETRY ProcessSymmetry
PROPERTIES BindingsEndOnRequest RequestsAdvance ImplementsContract
