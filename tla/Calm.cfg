CONSTANTS
  h1 = h1
  h2 = h2
  c1 = c1
  k1 = k1
  k2 = k2
  Handlers = {h1, h2}
  Brokers = {k1}
  Host <- OneProcess
  Instances = {i1, i2}
  Bindings = {b1, b2}
  Passwords = {p1, p2, p3}
  None = None
  DriverResends = FALSE
  MaxFaults = 0
  Serialized = TRUE
SPECIFICATION Spec
SYMMETRY ProcessSymmetry
INVARIANTS CalmRequestsNeverCrash CalmAnswersHold
